---- MODULE Spec2Model ----
(***************************************************************************)
(* Repository resolver of claude-fix (src/src/prompt-builder.js, the part  *)
(* starting at line 406): URL normalization, the JSON cache file, the      *)
(* bounded filesystem scan and resolveRepo; besides these the daemon's PID *)
(* file (src/bin/claude-fix.js, isRunning and cmdServe) and the HTTP       *)
(* request handler (prompt-builder.js:287-399).                            *)
(*                                                                         *)
(* Strings are sequences of one-character strings, so that trimming,       *)
(* prefix matching, suffix stripping and lowercasing are computed as the   *)
(* JavaScript computes them.  JavaScript's null is the value Null.         *)
(***************************************************************************)
EXTENDS Integers, Sequences, FiniteSets, TLC

VARIABLES
  nPc, nRepo, nRaw, nOut1, nOut2,
  sPc, sFs, sId, sRoots, sMaxDepth, sResult, sConforming,
  rFs, rCacheFile, rConfig, rNow, rLast, rPrev,
  cFs, cFile, cOp, cPc, cSeen, cLoaded, cWriter, cStage, cResult,
  wPc, wFs, wId, wRoots, wMaxDepth, wCheckouts, wRoot, wStack, wRead, wResult,
  dPc, dPidFile, dListener, dStatus,
  hPc, hReq, hFetch, hSent, hSpawned

\* The normalizer harness: its step, the repository the raw input spells
\* (Null when none), the raw input, normalize(raw), normalize of that.
normVars == <<nPc, nRepo, nRaw, nOut1, nOut2>>
\* The scanner harness: its step, the filesystem, the arguments of
\* scanForRepo and its result; the directories of the filesystem that are
\* checkouts of the identifier, kept for the properties.
scanVars == <<sPc, sFs, sId, sRoots, sMaxDepth, sResult, sConforming>>
\* The resolver: the filesystem, ~/.claude-fix/repo-cache.json,
\* ~/.claude-fix/config.json, the clock, and what the last two calls were
\* and returned.
resVars == <<rFs, rCacheFile, rConfig, rNow, rLast, rPrev>>
\* Processes sharing the cache file: the filesystem, the file, and for each
\* process its operation, its position in it, the file as it was when the
\* process read it and the value it holds in memory; the process that
\* wrote the file last; for a process in resolveRepo, which of its calls
\* it is in and the value it returns.
concVars ==
  <<cFs, cFile, cOp, cPc, cSeen, cLoaded, cWriter, cStage, cResult>>
\* The scan step by step: the position in scanForRepo and walkDir, the
\* filesystem, the arguments, the index of the search root being walked,
\* the calls of walkDir in progress (directory, depth, entries the loop
\* has not taken yet), the directories whose entries were read together
\* with the search root they were read under, and the result; the
\* directories walkDir returns when it meets them, kept for speed.
walkVars ==
  <<wPc, wFs, wId, wRoots, wMaxDepth, wCheckouts, wRoot, wStack, wRead,
    wResult>>
\* The daemon: the position of each `serve` process, /tmp/claude-fix.pid
\* (0 when absent), the process listening on the port (0 when none) and
\* what the last `status` found and reported.
daemonVars == <<dPc, dPidFile, dListener, dStatus>>
\* The HTTP server: for each request its position in requestHandler, the
\* request, how its call of fetchDatadogPrompt ended, the status codes
\* written to it and the number of calls of spawnTerminal made for it.
httpVars == <<hPc, hReq, hFetch, hSent, hSpawned>>
laterVars == <<walkVars, daemonVars, httpVars>>
vars == <<normVars, scanVars, resVars, concVars, laterVars>>

(***************************************************************************)
(* Strings                                                                 *)
(***************************************************************************)

\* JavaScript null / undefined: a value that is no string of characters.
Null == <<"null">>

\* null where a path is expected: no sequence of names.
NullPath == << <<"null">> >>

\* !x for x a string or null (prompt-builder.js:434, 462, 634).
Falsy(x) == x = Null \/ x = <<>>

UpperChars ==
  {"A","B","C","D","E","F","G","H","I","J","K","L","M",
   "N","O","P","Q","R","S","T","U","V","W","X","Y","Z"}

LowerOf ==
  [c \in UpperChars |->
     CASE c = "A" -> "a" [] c = "B" -> "b" [] c = "C" -> "c" [] c = "D" -> "d"
       [] c = "E" -> "e" [] c = "F" -> "f" [] c = "G" -> "g" [] c = "H" -> "h"
       [] c = "I" -> "i" [] c = "J" -> "j" [] c = "K" -> "k" [] c = "L" -> "l"
       [] c = "M" -> "m" [] c = "N" -> "n" [] c = "O" -> "o" [] c = "P" -> "p"
       [] c = "Q" -> "q" [] c = "R" -> "r" [] c = "S" -> "s" [] c = "T" -> "t"
       [] c = "U" -> "u" [] c = "V" -> "v" [] c = "W" -> "w" [] c = "X" -> "x"
       [] c = "Y" -> "y" [] c = "Z" -> "z"]

LowerChar(c) == IF c \in UpperChars THEN LowerOf[c] ELSE c

\* String.prototype.toLowerCase, character by character.
RECURSIVE ToLowerCase(_)
ToLowerCase(s) ==
  IF s = <<>> THEN <<>> ELSE <<LowerChar(s[1])>> \o ToLowerCase(Tail(s))

WhiteSpace == {" ", "\t"}

StartsWith(s, p) == Len(s) >= Len(p) /\ SubSeq(s, 1, Len(p)) = p

EndsWith(s, p) == Len(s) >= Len(p) /\ SubSeq(s, Len(s) - Len(p) + 1, Len(s)) = p

Drop(s, n) == SubSeq(s, n + 1, Len(s))

RECURSIVE TrimStart(_)
TrimStart(s) ==
  IF s # <<>> /\ s[1] \in WhiteSpace THEN TrimStart(Tail(s)) ELSE s

RECURSIVE TrimEnd(_)
TrimEnd(s) ==
  IF s # <<>> /\ s[Len(s)] \in WhiteSpace
    THEN TrimEnd(SubSeq(s, 1, Len(s) - 1))
    ELSE s

\* String.prototype.trim (prompt-builder.js:435).
Trim(s) == TrimEnd(TrimStart(s))

DotGit == <<".", "g", "i", "t">>

\* s.replace(/\.git$/, '')
StripDotGit(s) ==
  IF EndsWith(s, DotGit) THEN SubSeq(s, 1, Len(s) - Len(DotGit)) ELSE s

\* s.replace(/\/+$/, '')
RECURSIVE StripTrailingSlashes(_)
StripTrailingSlashes(s) ==
  IF s # <<>> /\ s[Len(s)] = "/"
    THEN StripTrailingSlashes(SubSeq(s, 1, Len(s) - 1))
    ELSE s

HttpScheme == <<"h", "t", "t", "p", ":", "/", "/">>
HttpsScheme == <<"h", "t", "t", "p", "s", ":", "/", "/">>

\* s.replace(/^https?:\/\//, '')
StripScheme(s) ==
  IF StartsWith(s, HttpsScheme) THEN Drop(s, Len(HttpsScheme))
  ELSE IF StartsWith(s, HttpScheme) THEN Drop(s, Len(HttpScheme))
  ELSE s

GitAt == <<"g", "i", "t", "@">>

AzurePrefix ==
  <<"g","i","t","@","s","s","h",".","d","e","v",".","a","z","u","r","e",
    ".","c","o","m",":","v","3","/">>

AzureHost == <<"d","e","v",".","a","z","u","r","e",".","c","o","m","/">>

\* u.match(/^git@ssh\.dev\.azure\.com:v3\/(.+)/): the prefix and one more
\* character at least.
AzureMatches(u) == StartsWith(u, AzurePrefix) /\ Len(u) > Len(AzurePrefix)

\* Index of the first ':' at or after position i, 0 when there is none.
RECURSIVE FirstColon(_, _)
FirstColon(u, i) ==
  IF i > Len(u) THEN 0
  ELSE IF u[i] = ":" THEN i
  ELSE FirstColon(u, i + 1)

\* u.match(/^git@([^:]+):(.+)/): "git@", a non-empty run without ':', the
\* first ':', and a non-empty rest.
SshColon(u) == IF StartsWith(u, GitAt) THEN FirstColon(u, Len(GitAt) + 1) ELSE 0

SshMatches(u) == SshColon(u) > Len(GitAt) + 1 /\ SshColon(u) < Len(u)

(***************************************************************************)
(* URL normalization                                                       *)
(***************************************************************************)

\* prompt-builder.js:449-455: scheme, then ".git", then slashes, then case.
NormalizeHttp(u) ==
  ToLowerCase(StripTrailingSlashes(StripDotGit(StripScheme(u))))

\* normalizeRepoUrl with the generic SSH form tried first.
normalizeRepoUrl_sshFirst(url) ==
  IF Falsy(url) THEN Null
  ELSE LET u == Trim(url) IN
    IF SshMatches(u)
      THEN StripDotGit(ToLowerCase(
             SubSeq(u, Len(GitAt) + 1, SshColon(u) - 1) \o <<"/">>
               \o Drop(u, SshColon(u))))
    ELSE IF AzureMatches(u)
      THEN StripDotGit(ToLowerCase(AzureHost \o Drop(u, Len(AzurePrefix))))
    ELSE NormalizeHttp(u)

\* normalizeRepoUrl that keeps a trailing .git in the generic SSH form.
normalizeRepoUrl_sshKeepsDotGit(url) ==
  IF Falsy(url) THEN Null
  ELSE LET u == Trim(url) IN
    IF AzureMatches(u)
      THEN StripDotGit(ToLowerCase(AzureHost \o Drop(u, Len(AzurePrefix))))
    ELSE IF SshMatches(u)
      THEN ToLowerCase(
             SubSeq(u, Len(GitAt) + 1, SshColon(u) - 1) \o <<"/">>
               \o Drop(u, SshColon(u)))
    ELSE NormalizeHttp(u)

\* normalizeRepoUrl (prompt-builder.js:433-456).
normalizeRepoUrl(url) ==
  IF Falsy(url) THEN Null
  ELSE LET u == Trim(url) IN
    IF AzureMatches(u)
      THEN StripDotGit(ToLowerCase(AzureHost \o Drop(u, Len(AzurePrefix))))
    ELSE IF SshMatches(u)
      THEN StripDotGit(ToLowerCase(
             SubSeq(u, Len(GitAt) + 1, SshColon(u) - 1) \o <<"/">>
               \o Drop(u, SshColon(u))))
    ELSE NormalizeHttp(u)

\* Index of the last '/' of s, 0 when there is none.
RECURSIVE LastSlash(_, _)
LastSlash(s, i) ==
  IF i = 0 THEN 0
  ELSE IF s[i] = "/" THEN i
  ELSE LastSlash(s, i - 1)

\* extractRepoName (prompt-builder.js:461-465): the part after the last '/'.
extractRepoName(normalizedUrl) ==
  IF Falsy(normalizedUrl) THEN Null
  ELSE Drop(normalizedUrl, LastSlash(normalizedUrl, Len(normalizedUrl)))

(***************************************************************************)
(* Filesystem and git                                                      *)
(*                                                                         *)
(* A path is the sequence of its names, a name a string.  A filesystem is  *)
(* [dirs, files, unreadable, remotes]: the directories, the other entries, *)
(* the directories readdirSync fails on, and for each directory the URL    *)
(* column of the lines `git -C dir remote -v` prints (no line when git     *)
(* fails there).                                                           *)
(***************************************************************************)

EmptyFs == [dirs |-> {}, files |-> {}, unreadable |-> {}, remotes |-> <<>>]

\* SKIP_DIRS (prompt-builder.js:419-422).
SKIP_DIRS ==
  { <<".","g","i","t">>,
    <<"n","o","d","e","_","m","o","d","u","l","e","s">>,
    <<"d","i","s","t">>,
    <<".","b","a","r","e">>,
    <<"_","_","p","y","c","a","c","h","e","_","_">>,
    <<"v","e","n","d","o","r">>,
    <<".","v","e","n","v">>,
    <<"b","u","i","l","d">>,
    <<".","c","a","c","h","e">>,
    <<".","n","e","x","t">>,
    <<".","t","u","r","b","o">> }

\* process.env.HOME, as a path.
HOME == << <<"u">> >>

\* Path b is q or lies above q.
IsPrefix(b, q) == Len(b) <= Len(q) /\ SubSeq(q, 1, Len(b)) = b

\* path.join(dir, name)
Join(dir, name) == Append(dir, name)

\* fs.existsSync(p)
ExistsSync(fs, p) == p \in fs.dirs \/ p \in fs.files

\* The distinct elements of a sequence, in the order of first occurrence
\* ([...new Set(...)], prompt-builder.js:481-486).
RECURSIVE Dedup(_, _)
Dedup(s, seen) ==
  IF s = <<>> THEN <<>>
  ELSE IF s[1] \in seen THEN Dedup(Tail(s), seen)
  ELSE <<s[1]>> \o Dedup(Tail(s), seen \cup {s[1]})

\* getRepoRemotes (prompt-builder.js:474-490): the deduplicated URLs, and
\* the empty list when git fails (no such directory, not a repository).
getRepoRemotes(fs, dirPath) ==
  IF dirPath \in DOMAIN fs.remotes THEN Dedup(fs.remotes[dirPath], {}) ELSE <<>>

\* remotes.map(normalizeRepoUrl).includes(normalizedUrl)
RemotesInclude(fs, dirPath, normalizedUrl) ==
  LET remotes == getRepoRemotes(fs, dirPath)
  IN \E i \in 1..Len(remotes) : normalizeRepoUrl(remotes[i]) = normalizedUrl

(***************************************************************************)
(* Filesystem scan                                                         *)
(***************************************************************************)

\* The entries of dir the loop of walkDir does not skip, without the
\* SKIP_DIRS test.
WalkEntries_noSkip(fs, dir) ==
  {d \in fs.dirs : Len(d) = Len(dir) + 1 /\ SubSeq(d, 1, Len(dir)) = dir}

\* The entries of dir the loop of walkDir looks at: directories whose name
\* is not in SKIP_DIRS (prompt-builder.js:584-586).
WalkEntries(fs, dir) ==
  {d \in fs.dirs : /\ Len(d) = Len(dir) + 1
                   /\ SubSeq(d, 1, Len(dir)) = dir
                   /\ d[Len(d)] \notin SKIP_DIRS}

\* The test of walkDir with the name compared as it is spelled.
IsCheckout_caseSensitive(fs, full, repoName, normalizedUrl) ==
  /\ full[Len(full)] = repoName
  /\ ExistsSync(fs, Join(full, DotGit))
  /\ RemotesInclude(fs, full, normalizedUrl)

\* The test of walkDir without the ".git" check.
IsCheckout_noGitCheck(fs, full, repoName, normalizedUrl) ==
  /\ ToLowerCase(full[Len(full)]) = repoName
  /\ RemotesInclude(fs, full, normalizedUrl)

\* The test walkDir returns full on (prompt-builder.js:590-600): the name
\* matches, full/.git exists, a remote normalizes to normalizedUrl.
IsCheckout(fs, full, repoName, normalizedUrl) ==
  /\ ToLowerCase(full[Len(full)]) = repoName
  /\ ExistsSync(fs, Join(full, DotGit))
  /\ RemotesInclude(fs, full, normalizedUrl)

\* walkDir that does not look below an entry with the repo name that is no
\* checkout of the identifier.
RECURSIVE walkDir_passesRejected(_, _, _, _, _, _)
walkDir_passesRejected(fs, dir, repoName, normalizedUrl, depth, maxDepth) ==
  IF depth > maxDepth \/ dir \notin fs.dirs \/ dir \in fs.unreadable
    THEN {NullPath}
  ELSE
    LET Outcome(full) ==
          IF IsCheckout(fs, full, repoName, normalizedUrl)
            THEN {full}
          ELSE IF ToLowerCase(full[Len(full)]) = repoName
            THEN {NullPath}
            ELSE walkDir_passesRejected(fs, full, repoName, normalizedUrl,
                                        depth + 1, maxDepth)
        found == UNION {Outcome(full) \ {NullPath} : full \in WalkEntries(fs, dir)}
    IN IF found = {} THEN {NullPath} ELSE found

\* walkDir with the depth test depth >= maxDepth.
RECURSIVE walkDir_strictDepth(_, _, _, _, _, _)
walkDir_strictDepth(fs, dir, repoName, normalizedUrl, depth, maxDepth) ==
  IF depth >= maxDepth \/ dir \notin fs.dirs \/ dir \in fs.unreadable
    THEN {NullPath}
  ELSE
    LET Outcome(full) ==
          IF IsCheckout(fs, full, repoName, normalizedUrl)
            THEN {full}
            ELSE walkDir_strictDepth(fs, full, repoName, normalizedUrl,
                                     depth + 1, maxDepth)
        found == UNION {Outcome(full) \ {NullPath} : full \in WalkEntries(fs, dir)}
    IN IF found = {} THEN {NullPath} ELSE found

\* walkDir that looks below an entry before it tests the entry itself.
RECURSIVE walkDir_recurseFirst(_, _, _, _, _, _)
walkDir_recurseFirst(fs, dir, repoName, normalizedUrl, depth, maxDepth) ==
  IF depth > maxDepth \/ dir \notin fs.dirs \/ dir \in fs.unreadable
    THEN {NullPath}
  ELSE
    LET Outcome(full) ==
          LET below == walkDir_recurseFirst(fs, full, repoName, normalizedUrl,
                                            depth + 1, maxDepth) \ {NullPath}
          IN IF below # {} THEN below
             ELSE IF IsCheckout(fs, full, repoName, normalizedUrl)
               THEN {full}
               ELSE {NullPath}
        found == UNION {Outcome(full) \ {NullPath} : full \in WalkEntries(fs, dir)}
    IN IF found = {} THEN {NullPath} ELSE found

\* walkDir (prompt-builder.js:574-609).  readdirSync fixes no order of the
\* entries, so the value is the set of the results some order gives: full
\* or the result below full, for any entry the loop does not pass with
\* nothing found; null when there is no such entry.
RECURSIVE walkDir(_, _, _, _, _, _)
walkDir(fs, dir, repoName, normalizedUrl, depth, maxDepth) ==
  IF depth > maxDepth \/ dir \notin fs.dirs \/ dir \in fs.unreadable
    THEN {NullPath}
  ELSE
    LET Outcome(full) ==
          IF IsCheckout(fs, full, repoName, normalizedUrl)
            THEN {full}
            ELSE walkDir(fs, full, repoName, normalizedUrl, depth + 1, maxDepth)
        found == UNION {Outcome(full) \ {NullPath} : full \in WalkEntries(fs, dir)}
    IN IF found = {} THEN {NullPath} ELSE found

\* raw.replace(/^~/, process.env.HOME) (prompt-builder.js:566).
ExpandHome(raw) ==
  IF raw # <<>> /\ raw[1] # <<>> /\ raw[1][1] = "~"
    THEN IF Len(raw[1]) = 1
           THEN HOME \o Tail(raw)
           ELSE SubSeq(HOME, 1, Len(HOME) - 1)
                  \o <<HOME[Len(HOME)] \o Tail(raw[1])>> \o Tail(raw)
    ELSE raw

\* The loop of scanForRepo from the last search path backwards.
RECURSIVE ScanFrom_lastFirst(_, _, _, _, _)
ScanFrom_lastFirst(fs, normalizedUrl, searchPaths, maxDepth, i) ==
  LET j == Len(searchPaths) + 1 - i IN
  IF i > Len(searchPaths) THEN {NullPath}
  ELSE LET result == walkDir(fs, ExpandHome(searchPaths[j]),
                             extractRepoName(normalizedUrl), normalizedUrl,
                             0, maxDepth)
       IN IF result # {NullPath} THEN result
          ELSE ScanFrom_lastFirst(fs, normalizedUrl, searchPaths, maxDepth, i + 1)

\* The loop of scanForRepo ending at the first search path that cannot be
\* read.
RECURSIVE ScanFrom_stopsAtError(_, _, _, _, _)
ScanFrom_stopsAtError(fs, normalizedUrl, searchPaths, maxDepth, i) ==
  IF i > Len(searchPaths) THEN {NullPath}
  ELSE IF ExpandHome(searchPaths[i]) \notin fs.dirs THEN {NullPath}
  ELSE LET result == walkDir(fs, ExpandHome(searchPaths[i]),
                             extractRepoName(normalizedUrl), normalizedUrl,
                             0, maxDepth)
       IN IF result # {NullPath} THEN result
          ELSE ScanFrom_stopsAtError(fs, normalizedUrl, searchPaths,
                                     maxDepth, i + 1)

\* The loop of scanForRepo from search path i on (prompt-builder.js:565-571).
RECURSIVE ScanFrom(_, _, _, _, _)
ScanFrom(fs, normalizedUrl, searchPaths, maxDepth, i) ==
  IF i > Len(searchPaths) THEN {NullPath}
  ELSE LET result == walkDir(fs, ExpandHome(searchPaths[i]),
                             extractRepoName(normalizedUrl), normalizedUrl,
                             0, maxDepth)
       IN IF result # {NullPath} THEN result
          ELSE ScanFrom(fs, normalizedUrl, searchPaths, maxDepth, i + 1)

\* scanForRepo (prompt-builder.js:561-572): the results it can return.
scanForRepo(fs, normalizedUrl, searchPaths, maxDepth) ==
  IF Falsy(extractRepoName(normalizedUrl)) THEN {NullPath}
  ELSE ScanFrom(fs, normalizedUrl, searchPaths, maxDepth, 1)

(***************************************************************************)
(* Cache file, configuration and resolveRepo                               *)
(*                                                                         *)
(* The cache file is [kind, entries, writable].  kind is "missing" (no     *)
(* file), "unreadable" (readFileSync throws), "garbage" (JSON.parse        *)
(* throws), "null" (the text null), "list" (the text of an array) or       *)
(* "json" (the text of an object), and then entries maps identifiers to    *)
(* [path, lastUsed].  writable tells whether writeFileSync succeeds: it    *)
(* fails when ~/.claude-fix does not exist or may not be written.  The     *)
(* configuration is [hasPaths, paths, hasDepth, depth]: GIT_SEARCH_PATHS   *)
(* and GIT_SEARCH_MAX_DEPTH when they are set.                             *)
(*                                                                         *)
(* A JavaScript value read from the file is [type, entries]: type "null",  *)
(* "array" or "object", and its own enumerable properties.  A call has the *)
(* outcome [result, file, raised]: the value returned, the cache file      *)
(* left, and whether the call threw instead of returning.                  *)
(***************************************************************************)

\* The empty object {}.
NoEntries == [id \in {} |-> [path |-> NullPath, lastUsed |-> 0]]

ProtoKey == <<"_","_","p","r","o","t","o","_","_">>
ConstructorKey == <<"c","o","n","s","t","r","u","c","t","o","r">>

\* The lower-case names every object and array inherits from
\* Object.prototype: cache[name] is truthy although the file has no such
\* entry (prompt-builder.js:514-515).
InheritedKeys == {ProtoKey, ConstructorKey}

\* loadCache (prompt-builder.js:496-503): what JSON.parse returns, and {}
\* when there is no file or reading or parsing throws.
loadCache(file) ==
  CASE file.kind = "json" -> [type |-> "object", entries |-> file.entries]
    [] file.kind = "null" -> [type |-> "null", entries |-> NoEntries]
    [] file.kind = "list" -> [type |-> "array", entries |-> NoEntries]
    [] OTHER -> [type |-> "object", entries |-> NoEntries]

\* JSON.stringify(cache) as the file holds it (prompt-builder.js:506): the
\* own properties of an object, the elements and nothing else of an array.
WrittenFile(cache) ==
  IF cache.type = "array"
    THEN [kind |-> "list", entries |-> NoEntries, writable |-> TRUE]
    ELSE [kind |-> "json", entries |-> cache.entries, writable |-> TRUE]

Returns(result, file) == [result |-> result, file |-> file, raised |-> FALSE]

Raises(file) == [result |-> NullPath, file |-> file, raised |-> TRUE]

\* saveCache (prompt-builder.js:505-507) followed by `return result`:
\* writeFileSync is not guarded, so its error leaves the caller.
saveCache(file, cache, result) ==
  IF file.writable THEN Returns(result, WrittenFile(cache)) ELSE Raises(file)

\* !!cache[id] (prompt-builder.js:514-515)
HasEntry(cache, id) == id \in DOMAIN cache.entries \/ id \in InheritedKeys

\* cache[id] when it is truthy; an inherited value has no path.
Get(cache, id) ==
  IF id \in DOMAIN cache.entries THEN cache.entries[id]
  ELSE [path |-> NullPath, lastUsed |-> 0]

\* delete cache[id]
Delete(cache, id) ==
  [cache EXCEPT !.entries = [k \in DOMAIN cache.entries \ {id} |-> cache.entries[k]]]

\* cache[id] = entry: assigning to __proto__ replaces the prototype and
\* adds no property.
Put(cache, id, entry) ==
  IF id = ProtoKey THEN cache
  ELSE [cache EXCEPT !.entries =
          [k \in DOMAIN cache.entries \cup {id} |->
             IF k = id THEN entry ELSE cache.entries[k]]]

\* cacheLookup without the check of the remotes.
cacheLookup_noRemoteCheck(fs, file, normalizedUrl, now) ==
  LET cache == loadCache(file) IN
  IF cache.type = "null" THEN Raises(file)
  ELSE IF ~HasEntry(cache, normalizedUrl) THEN Returns(NullPath, file)
  ELSE LET entry == Get(cache, normalizedUrl) IN
    IF ~ExistsSync(fs, entry.path)
      THEN saveCache(file, Delete(cache, normalizedUrl), NullPath)
    ELSE saveCache(file, Put(cache, normalizedUrl,
                              [entry EXCEPT !.lastUsed = now]), entry.path)

\* cacheLookup that leaves the entry in place when its path is gone.
cacheLookup_keepsGone(fs, file, normalizedUrl, now) ==
  LET cache == loadCache(file) IN
  IF cache.type = "null" THEN Raises(file)
  ELSE IF ~HasEntry(cache, normalizedUrl) THEN Returns(NullPath, file)
  ELSE LET entry == Get(cache, normalizedUrl) IN
    IF ~ExistsSync(fs, entry.path)
      THEN Returns(NullPath, file)
    ELSE IF ~RemotesInclude(fs, entry.path, normalizedUrl)
      THEN saveCache(file, Delete(cache, normalizedUrl), NullPath)
    ELSE saveCache(file, Put(cache, normalizedUrl,
                              [entry EXCEPT !.lastUsed = now]), entry.path)

\* cacheLookup that leaves the entry in place when its remotes differ.
cacheLookup_keepsMismatch(fs, file, normalizedUrl, now) ==
  LET cache == loadCache(file) IN
  IF cache.type = "null" THEN Raises(file)
  ELSE IF ~HasEntry(cache, normalizedUrl) THEN Returns(NullPath, file)
  ELSE LET entry == Get(cache, normalizedUrl) IN
    IF ~ExistsSync(fs, entry.path)
      THEN saveCache(file, Delete(cache, normalizedUrl), NullPath)
    ELSE IF ~RemotesInclude(fs, entry.path, normalizedUrl)
      THEN Returns(NullPath, file)
    ELSE saveCache(file, Put(cache, normalizedUrl,
                              [entry EXCEPT !.lastUsed = now]), entry.path)

\* cacheLookup that refreshes lastUsed of every entry on a hit.
cacheLookup_refreshesAll(fs, file, normalizedUrl, now) ==
  LET cache == loadCache(file) IN
  IF cache.type = "null" THEN Raises(file)
  ELSE IF ~HasEntry(cache, normalizedUrl) THEN Returns(NullPath, file)
  ELSE LET entry == Get(cache, normalizedUrl) IN
    IF ~ExistsSync(fs, entry.path)
      THEN saveCache(file, Delete(cache, normalizedUrl), NullPath)
    ELSE IF ~RemotesInclude(fs, entry.path, normalizedUrl)
      THEN saveCache(file, Delete(cache, normalizedUrl), NullPath)
    ELSE saveCache(file,
                   [cache EXCEPT !.entries =
                      [k \in DOMAIN cache.entries |->
                         [cache.entries[k] EXCEPT !.lastUsed = now]]],
                   entry.path)

\* cacheLookup that keeps and returns the entry when git fails in its path.
cacheLookup_trustsWhenGitFails(fs, file, normalizedUrl, now) ==
  LET cache == loadCache(file) IN
  IF cache.type = "null" THEN Raises(file)
  ELSE IF ~HasEntry(cache, normalizedUrl) THEN Returns(NullPath, file)
  ELSE LET entry == Get(cache, normalizedUrl) IN
    IF ~ExistsSync(fs, entry.path)
      THEN saveCache(file, Delete(cache, normalizedUrl), NullPath)
    ELSE IF /\ entry.path \in DOMAIN fs.remotes
            /\ ~RemotesInclude(fs, entry.path, normalizedUrl)
      THEN saveCache(file, Delete(cache, normalizedUrl), NullPath)
    ELSE saveCache(file, Put(cache, normalizedUrl,
                              [entry EXCEPT !.lastUsed = now]), entry.path)

\* cacheLookup (prompt-builder.js:512-540): what it returns and the cache
\* file it leaves.  cache[normalizedUrl] throws when cache is null.
cacheLookup(fs, file, normalizedUrl, now) ==
  LET cache == loadCache(file) IN
  IF cache.type = "null" THEN Raises(file)
  ELSE IF ~HasEntry(cache, normalizedUrl) THEN Returns(NullPath, file)
  ELSE LET entry == Get(cache, normalizedUrl) IN
    IF ~ExistsSync(fs, entry.path)
      THEN saveCache(file, Delete(cache, normalizedUrl), NullPath)
    ELSE IF ~RemotesInclude(fs, entry.path, normalizedUrl)
      THEN saveCache(file, Delete(cache, normalizedUrl), NullPath)
    ELSE saveCache(file, Put(cache, normalizedUrl,
                              [entry EXCEPT !.lastUsed = now]), entry.path)

\* cacheStore (prompt-builder.js:542-549): its outcome; it returns nothing.
\* The assignment throws when cache is null.
cacheStore(file, normalizedUrl, resolvedPath, now) ==
  LET cache == loadCache(file) IN
  IF cache.type = "null" THEN Raises(file)
  ELSE saveCache(file, Put(cache, normalizedUrl,
                           [path |-> resolvedPath, lastUsed |-> now]), NullPath)

\* The default of GIT_SEARCH_MAX_DEPTH (prompt-builder.js:648).
DefaultMaxDepth == 4

\* The default of GIT_SEARCH_PATHS (prompt-builder.js:647): ['~/dd'].
DefaultSearchPaths == << << <<"~">>, <<"d","d">> >> >>

\* config.GIT_SEARCH_PATHS || ['~/dd']
SearchPathsOf(config) ==
  IF config.hasPaths THEN config.paths ELSE DefaultSearchPaths

\* config.GIT_SEARCH_MAX_DEPTH || 4: 0 is falsy as well.
MaxDepthOf(config) ==
  IF config.hasDepth /\ config.depth # 0 THEN config.depth ELSE DefaultMaxDepth

\* An outcome of resolveRepo: the value returned, the cache file left,
\* whether cacheLookup and whether scanForRepo were called, and whether the
\* call threw instead of returning.
Resolved(result, file, looked, scanned, raised) ==
  [result |-> result, file |-> file, looked |-> looked, scanned |-> scanned,
   raised |-> raised]

\* resolveRepo that goes on with an identifier that is null or empty.
resolveRepo_noEarlyReturn(fs, file, config, repoUrl, now) ==
  LET normalized == normalizeRepoUrl(repoUrl)
      cached == cacheLookup(fs, file, normalized, now) IN
  IF cached.raised
    THEN {Resolved(NullPath, cached.file, TRUE, FALSE, TRUE)}
  ELSE IF cached.result # NullPath
    THEN {Resolved(cached.result, cached.file, TRUE, FALSE, FALSE)}
  ELSE
    {IF found = NullPath
       THEN Resolved(NullPath, cached.file, TRUE, TRUE, FALSE)
       ELSE LET stored == cacheStore(cached.file, normalized, found, now)
            IN Resolved(IF stored.raised THEN NullPath ELSE found,
                       stored.file, TRUE, TRUE, stored.raised) :
       found \in scanForRepo(fs, normalized, SearchPathsOf(config),
                             MaxDepthOf(config))}

\* resolveRepo that returns what the scan found without storing it.
resolveRepo_noStore(fs, file, config, repoUrl, now) ==
  LET normalized == normalizeRepoUrl(repoUrl) IN
  IF Falsy(normalized)
    THEN {Resolved(NullPath, file, FALSE, FALSE, FALSE)}
  ELSE LET cached == cacheLookup(fs, file, normalized, now) IN
    IF cached.raised
      THEN {Resolved(NullPath, cached.file, TRUE, FALSE, TRUE)}
    ELSE IF cached.result # NullPath
      THEN {Resolved(cached.result, cached.file, TRUE, FALSE, FALSE)}
    ELSE
      {Resolved(found, cached.file, TRUE, TRUE, FALSE) :
         found \in scanForRepo(fs, normalized, SearchPathsOf(config),
                               MaxDepthOf(config))}

\* resolveRepo (prompt-builder.js:632-661): the outcomes it can have.  No
\* call in it is guarded, so what cacheLookup or cacheStore throws leaves
\* resolveRepo as well.
resolveRepo(fs, file, config, repoUrl, now) ==
  LET normalized == normalizeRepoUrl(repoUrl) IN
  IF Falsy(normalized)
    THEN {Resolved(NullPath, file, FALSE, FALSE, FALSE)}
  ELSE LET cached == cacheLookup(fs, file, normalized, now) IN
    IF cached.raised
      THEN {Resolved(NullPath, cached.file, TRUE, FALSE, TRUE)}
    ELSE IF cached.result # NullPath
      THEN {Resolved(cached.result, cached.file, TRUE, FALSE, FALSE)}
    ELSE
      {IF found = NullPath
         THEN Resolved(NullPath, cached.file, TRUE, TRUE, FALSE)
         ELSE LET stored == cacheStore(cached.file, normalized, found, now)
              IN Resolved(IF stored.raised THEN NullPath ELSE found,
                         stored.file, TRUE, TRUE, stored.raised) :
         found \in scanForRepo(fs, normalized, SearchPathsOf(config),
                               MaxDepthOf(config))}

(***************************************************************************)
(* Normalizer harness: a raw input is drawn, normalized, and the result is *)
(* fed back as raw input once.                                             *)
(***************************************************************************)

\* Longest run of trailing slashes a spelling carries.
MaxSlashes == 2

\* Longest raw input assembled freely from RawTokens.
MaxTokens == 3

Slash == <<"/">>

\* A repository is a host and a path below it, both lowercase.
RepoHOR == [host |-> <<"h">>, path |-> <<"o", "/", "r">>]
RepoHXR == [host |-> <<"h">>, path |-> <<"x", "/", "r">>]
RepoAzure ==
  [host |-> <<"d","e","v",".","a","z","u","r","e",".","c","o","m">>,
   path |-> <<"o", "/", "p", "/", "r">>]

Repos == {RepoHOR, RepoHXR, RepoAzure}

\* The Canonical Identifier of a repository: host/path.
CanonicalId(repo) == repo.host \o Slash \o repo.path

UpperChar(c) ==
  IF \E u \in UpperChars : LowerOf[u] = c
    THEN CHOOSE u \in UpperChars : LowerOf[u] = c
    ELSE c

RECURSIVE ToUpperCase(_)
ToUpperCase(s) ==
  IF s = <<>> THEN <<>> ELSE <<UpperChar(s[1])>> \o ToUpperCase(Tail(s))

\* Upper case at the odd positions only.
RECURSIVE ToMixedCase(_)
ToMixedCase(s) ==
  IF s = <<>> THEN <<>>
  ELSE IF Len(s) = 1 THEN <<UpperChar(s[1])>>
  ELSE <<UpperChar(s[1]), s[2]>> \o ToMixedCase(Tail(Tail(s)))

Casings == {"lower", "upper", "mixed"}

Cased(s, casing) ==
  CASE casing = "lower" -> s
    [] casing = "upper" -> ToUpperCase(s)
    [] casing = "mixed" -> ToMixedCase(s)

Forms == {"ssh", "http", "https", "bare"}

RECURSIVE Slashes(_)
Slashes(n) == IF n = 0 THEN <<>> ELSE Slash \o Slashes(n - 1)

\* One way of writing a repository: the form, the letter case of host and
\* path, a trailing ".git" or none, and trailing slashes.
Spelling(repo, form, casing, git, slashes) ==
  LET h == Cased(repo.host, casing)
      p == Cased(repo.path, casing)
      body == CASE form = "ssh" -> GitAt \o h \o <<":">> \o p
                [] form = "http" -> HttpScheme \o h \o Slash \o p
                [] form = "https" -> HttpsScheme \o h \o Slash \o p
                [] form = "bare" -> h \o Slash \o p
  IN body \o (IF git THEN DotGit ELSE <<>>) \o Slashes(slashes)

\* The provider-specific SSH shorthand of a dev.azure.com repository.
AzureSpelling(repo, git) ==
  AzurePrefix \o repo.path \o (IF git THEN DotGit ELSE <<>>)

Spelled ==
  {[repo |-> CanonicalId(repo), raw |-> Spelling(repo, f, c, g, n)] :
     repo \in Repos, f \in Forms, c \in Casings, g \in BOOLEAN,
     n \in 0..MaxSlashes}
  \cup {[repo |-> CanonicalId(RepoAzure), raw |-> AzureSpelling(RepoAzure, g)] :
          g \in BOOLEAN}

RawTokens ==
  {GitAt, HttpsScheme, DotGit, Slash, <<":">>, <<" ">>, <<"a">>, <<"B">>}

RECURSIVE TokenStrings(_)
TokenStrings(n) ==
  IF n = 0 THEN {<<>>}
  ELSE LET shorter == TokenStrings(n - 1)
       IN shorter \cup {t \o s : t \in RawTokens, s \in shorter}

\* Raw inputs that are no particular repository's spelling, null included.
FreeInputs ==
  {[repo |-> Null, raw |-> s] : s \in TokenStrings(MaxTokens) \cup {Null}}

UserGit == <<"g", "i", "t">>
UserBob == <<"b", "o", "b">>

\* User names of the SSH forms.
SshUsers == {UserGit, UserBob}

SshDot == <<"s", "s", "h", ".">>
V3 == <<"v", "3", "/">>

\* Hosts the provider-specific shorthand is written for.
ProviderHosts == {RepoAzure.host, <<"h">>}

\* What follows "v3/" in the provider-specific shorthand.
ProviderRests == {<<"o", "/", "r">>, <<"O", "/", "r">> \o DotGit}

\* Hosts and paths of the generic SSH form, those of the provider-specific
\* shorthand among them.
SshHosts == {<<"h">>, <<"H">>} \cup {SshDot \o ph : ph \in ProviderHosts}
SshPaths == ProviderRests \cup {V3 \o rest : rest \in ProviderRests}

\* user@host:path
SshRaw(user, host, path) == user \o <<"@">> \o host \o <<":">> \o path

\* user@ssh.<provider-host>:v3/<rest>
ProviderRaw(user, ph, rest) == SshRaw(user, SshDot \o ph, V3 \o rest)

\* Raw inputs of the form user@host:path.
SshInputs ==
  {[repo |-> Null, raw |-> SshRaw(u, h, p)] :
     u \in SshUsers, h \in SshHosts, p \in SshPaths}

NormIdle ==
  /\ nPc = "idle" /\ nRepo = Null /\ nRaw = Null
  /\ nOut1 = Null /\ nOut2 = Null

NormInit ==
  /\ nPc = "input"
  /\ \E x \in Spelled \cup FreeInputs \cup SshInputs :
       nRepo = x.repo /\ nRaw = x.raw
  /\ nOut1 = Null /\ nOut2 = Null

\* normalize(raw)
NormalizeOnce ==
  /\ nPc = "input"
  /\ nOut1' = normalizeRepoUrl(nRaw)
  /\ nPc' = "once"
  /\ UNCHANGED <<nRepo, nRaw, nOut2, scanVars, resVars, concVars, laterVars>>

\* normalize(normalize(raw)), for a result that is a string.
NormalizeTwice ==
  /\ nPc = "once"
  /\ nOut1 # Null
  /\ nOut2' = normalizeRepoUrl(nOut1)
  /\ nPc' = "twice"
  /\ UNCHANGED <<nRepo, nRaw, nOut1, scanVars, resVars, concVars, laterVars>>

ScanIdle ==
  /\ sPc = "idle" /\ sFs = EmptyFs /\ sId = Null /\ sRoots = <<>>
  /\ sMaxDepth = 0 /\ sResult = NullPath /\ sConforming = {}

NormNext ==
  \/ NormalizeOnce
  \/ NormalizeTwice


\* C5: every supported spelling of a repository (ssh, http, https or bare
\* form, with or without ".git", in any letter case, with any number of
\* trailing slashes) normalizes to the repository's Canonical Identifier.
C5_SpellingsNormalizeAlike ==
  (nPc \in {"once", "twice"} /\ nRepo # Null) => nOut1 = nRepo

\* C6: normalization is idempotent: whenever normalize(x) is not null,
\* normalize(normalize(x)) = normalize(x).
C6_NormalizeIdempotent ==
  nPc = "twice" => nOut2 = nOut1

Normalized == nPc \in {"once", "twice"}

\* C21: for every raw input, a result of normalize that is not null is
\* entirely lower case, carries no http:// or https:// prefix, does not end
\* in .git and does not end in a slash.
C21_CanonicalForm ==
  (Normalized /\ nOut1 # Null) =>
    /\ nOut1 = ToLowerCase(nOut1)
    /\ ~StartsWith(nOut1, HttpScheme) /\ ~StartsWith(nOut1, HttpsScheme)
    /\ ~EndsWith(nOut1, DotGit)
    /\ ~EndsWith(nOut1, Slash)

\* C22: normalize never returns the empty string: an input that is empty,
\* or becomes empty after trimming and stripping scheme, .git and slashes,
\* gives null.
C22_NeverEmptyString ==
  Normalized => nOut1 # <<>>

\* The input is user@ssh.<provider-host>:v3/<rest> for some user.
IsProviderForm(host, path) == StartsWith(host, SshDot) /\ StartsWith(path, V3)

\* C23 as stated: for every user name, host and path, where the
\* provider-specific shorthand does not apply first,
\* normalize('user@host:path') is host/path in lower case with a trailing
\* .git removed.
C23_GenericSshAnyUser ==
  \A u \in SshUsers, h \in SshHosts, p \in SshPaths :
    (Normalized /\ nRaw = SshRaw(u, h, p) /\ ~IsProviderForm(h, p)) =>
      nOut1 = StripDotGit(ToLowerCase(h \o Slash \o p))

\* C23 amended: for the user name git and every host and path, the input
\* git@ssh.dev.azure.com:v3/... excepted, normalize('git@host:path') is
\* host/path in lower case with a trailing .git removed.
C23_GenericSshGit ==
  \A h \in SshHosts, p \in SshPaths :
    (/\ Normalized /\ nRaw = SshRaw(UserGit, h, p)
     /\ ~(h = SshDot \o RepoAzure.host /\ StartsWith(p, V3))) =>
      nOut1 = StripDotGit(ToLowerCase(h \o Slash \o p))

\* git@H:O/r.git has been normalized to h/o/r.
C23_Witness ==
  /\ Normalized
  /\ nRaw = SshRaw(UserGit, <<"H">>, <<"O", "/", "r">> \o DotGit)
  /\ nOut1 = <<"h", "/", "o", "/", "r">>

\* C24 as stated: for every user, provider host and rest,
\* normalize('user@ssh.<provider-host>:v3/<rest>') is <provider-host>/<rest>
\* in lower case with a trailing .git removed, and never
\* ssh.<provider-host>/v3/<rest>.
C24_ProviderFormAnyHost ==
  \A u \in SshUsers, ph \in ProviderHosts, rest \in ProviderRests :
    (Normalized /\ nRaw = ProviderRaw(u, ph, rest)) =>
      /\ nOut1 = StripDotGit(ToLowerCase(ph \o Slash \o rest))
      /\ nOut1 # StripDotGit(ToLowerCase(SshDot \o ph \o Slash \o V3 \o rest))

\* C24 amended: the shorthand of dev.azure.com with the user name git is
\* tried before the generic SSH form: for every rest,
\* normalize('git@ssh.dev.azure.com:v3/<rest>') is dev.azure.com/<rest> in
\* lower case with a trailing .git removed, and never
\* ssh.dev.azure.com/v3/<rest>.
C24_AzureFormFirst ==
  \A rest \in ProviderRests :
    (Normalized /\ nRaw = ProviderRaw(UserGit, RepoAzure.host, rest)) =>
      /\ nOut1 = StripDotGit(ToLowerCase(RepoAzure.host \o Slash \o rest))
      /\ nOut1 # StripDotGit(ToLowerCase(
                    SshDot \o RepoAzure.host \o Slash \o V3 \o rest))

\* git@ssh.dev.azure.com:v3/O/r.git has been normalized to
\* dev.azure.com/o/r.
C24_Witness ==
  /\ Normalized
  /\ nRaw = ProviderRaw(UserGit, RepoAzure.host, <<"O", "/", "r">> \o DotGit)
  /\ nOut1 = RepoAzure.host \o <<"/", "o", "/", "r">>

(***************************************************************************)
(* Scanner harness: a filesystem, search paths and a depth are drawn and   *)
(* scanForRepo is applied.                                                 *)
(***************************************************************************)

\* Most names between a search root and a placed directory, the directory's
\* own name included; the depths scanned are 0..MaxPathLen.
MaxPathLen == 2

NameLower == <<"r">>
NameUpper == <<"R">>
NamePlain == <<"a">>
NameDist == <<"d","i","s","t">>

\* Names of the directories on the way, and of the placed directory.
InnerNames == {NameLower, NamePlain, NameDist}
LeafNames == {NameLower, NameUpper, NamePlain, NameDist}

BaseW == << <<"w">> >>
BaseDD == HOME \o << <<"d","d">> >>

\* Search paths as configured: /w, and ~/dd below the home directory.
RootW == << <<"w">> >>
RootTildeDD == << <<"~">>, <<"d","d">> >>
RootLists == {<<RootW>>, <<RootW, RootTildeDD>>, <<RootTildeDD, RootW>>}

IdHOR == CanonicalId(RepoHOR)

UrlSshHOR == Spelling(RepoHOR, "ssh", "mixed", TRUE, 0)
UrlHttpsHOR == Spelling(RepoHOR, "https", "lower", TRUE, 0)
UrlSshHXR == Spelling(RepoHXR, "ssh", "lower", TRUE, 0)

\* A repository whose name is in SKIP_DIRS.
RepoHOD == [host |-> <<"h">>, path |-> <<"o", "/">> \o NameDist]
IdHOD == CanonicalId(RepoHOD)
UrlSshHOD == Spelling(RepoHOD, "ssh", "lower", TRUE, 0)

RECURSIVE InnerPaths(_)
InnerPaths(n) ==
  IF n = 0 THEN {<<>>}
  ELSE LET shorter == InnerPaths(n - 1)
       IN shorter \cup {Append(q, name) : q \in shorter, name \in InnerNames}

\* The paths of at most n names below base.
PathsBelow(base, n) ==
  {base \o q \o <<name>> : q \in InnerPaths(n - 1), name \in LeafNames}

\* What a placed directory is: a plain directory; a directory readdirSync
\* fails on; a clone of h/o/r (a .git directory; fetch and push lines of
\* one remote); a clone of h/x/r; a directory without .git in which git
\* still lists h/o/r (it lies in a repository); a worktree of h/o/r (a .git
\* file; two remotes, the second one h/o/r); a directory with a .git
\* directory in which `git remote -v` fails (a damaged repository, no git
\* installed, or no answer within the timeout).  Apart from these, a clone
\* of h/o/dist ("distclone").
Kinds == {"plain", "locked", "clone", "other", "nogit", "worktree", "broken"}

KindRemotes(kind) ==
  CASE kind \in {"plain", "locked", "broken"} -> <<>>
    [] kind = "clone" -> <<UrlSshHOR, UrlSshHOR>>
    [] kind = "other" -> <<UrlSshHXR, UrlSshHXR>>
    [] kind = "nogit" -> <<UrlSshHOR, UrlSshHOR>>
    [] kind = "worktree" -> <<UrlSshHXR, UrlSshHXR, UrlHttpsHOR, UrlHttpsHOR>>
    [] kind = "distclone" -> <<UrlSshHOD, UrlSshHOD>>

Prefixes(p) == {SubSeq(p, 1, k) : k \in 1..Len(p)}

\* The filesystem holding the placed directories, a set of [path, kind]
\* with distinct paths, and the directories above them.
FsOf(placed) ==
  LET paths == {x.path : x \in placed}
      KindAt(q) == (CHOOSE x \in placed : x.path = q).kind
  IN [dirs |-> UNION {Prefixes(q) : q \in paths}
                 \cup {Join(x.path, DotGit) :
                         x \in {y \in placed :
                                y.kind \in {"clone", "other", "broken",
                                            "distclone"}}},
      files |-> {Join(x.path, DotGit) :
                   x \in {y \in placed : y.kind = "worktree"}},
      unreadable |-> {x.path : x \in {y \in placed : y.kind = "locked"}},
      remotes |-> [q \in {x.path :
                           x \in {y \in placed :
                                  y.kind \notin {"plain", "locked", "broken"}}}
                     |-> KindRemotes(KindAt(q))]]

\* The paths of at most n names below base that end in the repo name.
RepoPathsBelow(base, n) ==
  {base \o q \o <<NameLower>> : q \in InnerPaths(n - 1)}

\* One directory of any kind but worktree below /w, and at most one
\* worktree, named r, below /w or ~/dd.
ScanFilesystems ==
  {FsOf({[path |-> q, kind |-> k]}) :
     q \in PathsBelow(BaseW, MaxPathLen), k \in Kinds \ {"worktree"}}
  \cup
  {FsOf({[path |-> t[1], kind |-> t[3]], [path |-> t[2], kind |-> "worktree"]}) :
     t \in {u \in PathsBelow(BaseW, MaxPathLen)
               \X (RepoPathsBelow(BaseW, MaxPathLen)
                     \cup RepoPathsBelow(BaseDD, MaxPathLen))
               \X (Kinds \ {"worktree"}) : u[1] # u[2]}}

\* The layout of the repository's test 'respects maxDepth': a clone of
\* h/o/r at /w/a/a/r, two directories between the search root and it.
PathWAAR == BaseW \o <<NamePlain, NamePlain, NameLower>>
TestedFilesystem == FsOf({[path |-> PathWAAR, kind |-> "clone"]})

NameDistUpper == <<"D", "I", "S", "T">>

\* One clone of h/o/dist below /w, named r, R, a, dist or DIST.
DistFilesystems ==
  {FsOf({[path |-> q, kind |-> "distclone"]}) :
     q \in PathsBelow(BaseW, MaxPathLen)
            \cup {BaseW \o q \o <<NameDistUpper>> :
                    q \in InnerPaths(MaxPathLen - 1)}}

\* The filesystems scanned and the identifier each is scanned for.
ScanCases ==
  {[fs |-> fs, id |-> IdHOR] : fs \in ScanFilesystems \cup {TestedFilesystem}}
  \cup {[fs |-> fs, id |-> IdHOD] : fs \in DistFilesystems}

\* d is what the scan looks for: named like the identifier's repo name up
\* to letter case, holding a .git entry, with a remote normalizing to id.
Conforms(fs, d, id) ==
  /\ d \in fs.dirs /\ d \in DOMAIN fs.remotes
  /\ ToLowerCase(d[Len(d)]) = ToLowerCase(extractRepoName(id))
  /\ Join(d, DotGit) \in fs.dirs \cup fs.files
  /\ \E i \in 1..Len(fs.remotes[d]) : normalizeRepoUrl(fs.remotes[d][i]) = id

ScanInit ==
  /\ sPc = "ready"
  /\ \E case \in ScanCases : sFs = case.fs /\ sId = case.id
  /\ sRoots \in RootLists
  /\ sMaxDepth \in 0..MaxPathLen
  /\ sResult = NullPath
  /\ sConforming = {d \in DOMAIN sFs.remotes : Conforms(sFs, d, sId)}

\* scanForRepo(sId, sRoots, sMaxDepth)
ScanStep ==
  /\ sPc = "ready"
  /\ sResult' \in scanForRepo(sFs, sId, sRoots, sMaxDepth)
  /\ sPc' = "done"
  /\ UNCHANGED <<sFs, sId, sRoots, sMaxDepth, sConforming,
                 normVars, resVars, concVars, laterVars>>

ScanNext == ScanStep

(***************************************************************************)
(* The scan step by step: scanForRepo and walkDir as the interpreter runs  *)
(* them, one call, one readdirSync and one loop iteration at a time.       *)
(***************************************************************************)

\* The filesystems walked: the layout of the test 'respects maxDepth', and
\* a checkout of h/o/r at /w/a/a/r besides a directory of any kind named r
\* or dist below /w, or a checkout at ~/dd/r.
WalkFilesystems ==
  {TestedFilesystem}
  \cup {FsOf({[path |-> BaseW \o <<name>>, kind |-> k],
              [path |-> PathWAAR, kind |-> "worktree"]}) :
          name \in {NameLower, NameDist}, k \in Kinds \ {"worktree"}}
  \cup {FsOf({[path |-> BaseDD \o <<NameLower>>, kind |-> k],
              [path |-> PathWAAR, kind |-> "clone"]}) :
          k \in {"clone", "other"}}

\* The identifiers scanned for: h/o/r, and h/o/r/ as normalizeRepoUrl
\* leaves an SSH URL that ends in a slash, whose repo name is empty.
WalkIds == {IdHOR, Append(IdHOR, "/")}

\* A call of walkDir in progress.
Frame(dir, depth) == [dir |-> dir, depth |-> depth, todo |-> {}]

Top == wStack[Len(wStack)]

WalkInit ==
  /\ wPc = "ready"
  /\ wFs \in WalkFilesystems
  /\ wId \in WalkIds
  /\ wRoots \in RootLists
  /\ wMaxDepth \in 0..MaxPathLen
  /\ wCheckouts = {d \in wFs.dirs :
                     IsCheckout(wFs, d, extractRepoName(wId), wId)}
  /\ wRoot = 0
  /\ wStack = <<>>
  /\ wRead = {}
  /\ wResult = NullPath

\* scanForRepo up to its loop (prompt-builder.js:561-563).
ScanBegin ==
  /\ wPc = "ready"
  /\ IF Falsy(extractRepoName(wId))
       THEN wPc' = "done" /\ wRoot' = wRoot
       ELSE wPc' = "root" /\ wRoot' = 1
  /\ UNCHANGED <<wFs, wId, wRoots, wMaxDepth, wCheckouts, wStack, wRead, wResult,
                 normVars, scanVars, resVars, concVars, daemonVars, httpVars>>

\* The loop of scanForRepo taking its next search path, or ending with null
\* (prompt-builder.js:565-571).
ScanRoot ==
  /\ wPc = "root"
  /\ IF wRoot > Len(wRoots)
       THEN wPc' = "done" /\ wStack' = wStack
       ELSE /\ wPc' = "enter"
            /\ wStack' = <<Frame(ExpandHome(wRoots[wRoot]), 0)>>
  /\ UNCHANGED <<wFs, wId, wRoots, wMaxDepth, wCheckouts, wRoot, wRead, wResult,
                 normVars, scanVars, resVars, concVars, daemonVars, httpVars>>

\* The call of walkDir on top returns null: its caller goes on with its
\* loop, and scanForRepo with the next search path.
ReturnsNull ==
  /\ wStack' = SubSeq(wStack, 1, Len(wStack) - 1)
  /\ IF Len(wStack) = 1
       THEN wPc' = "root" /\ wRoot' = wRoot + 1
       ELSE wPc' = "loop" /\ wRoot' = wRoot

\* walkDir without the depth test.
WalkEnter_noDepthTest ==
  /\ wPc = "enter"
  /\ IF Top.dir \notin wFs.dirs \/ Top.dir \in wFs.unreadable
       THEN ReturnsNull /\ wRead' = wRead
       ELSE /\ wRead' = wRead \cup {[dir |-> Top.dir, root |-> wRoot]}
            /\ wStack' = [wStack EXCEPT ![Len(wStack)].todo =
                                           WalkEntries(wFs, Top.dir)]
            /\ wPc' = "loop" /\ wRoot' = wRoot
  /\ UNCHANGED <<wFs, wId, wRoots, wMaxDepth, wCheckouts, wResult,
                 normVars, scanVars, resVars, concVars, daemonVars, httpVars>>

\* walkDir from its entry to its loop: the depth test, then readdirSync
\* (prompt-builder.js:575-582).
WalkEnter ==
  /\ wPc = "enter"
  /\ IF \/ Top.depth > wMaxDepth
        \/ Top.dir \notin wFs.dirs \/ Top.dir \in wFs.unreadable
       THEN ReturnsNull /\ wRead' = wRead
       ELSE /\ wRead' = wRead \cup {[dir |-> Top.dir, root |-> wRoot]}
            /\ wStack' = [wStack EXCEPT ![Len(wStack)].todo =
                                           WalkEntries(wFs, Top.dir)]
            /\ wPc' = "loop" /\ wRoot' = wRoot
  /\ UNCHANGED <<wFs, wId, wRoots, wMaxDepth, wCheckouts, wResult,
                 normVars, scanVars, resVars, concVars, daemonVars, httpVars>>

\* One iteration of the loop of walkDir, on any entry not yet taken
\* (prompt-builder.js:584-607): full is returned, through every caller and
\* scanForRepo, when IsCheckout holds of it, or walkDir is called on it.
WalkEntry ==
  /\ wPc = "loop" /\ Top.todo # {}
  /\ \E full \in Top.todo :
       IF full \in wCheckouts
         THEN wResult' = full /\ wStack' = <<>> /\ wPc' = "done"
         ELSE /\ wResult' = wResult
              /\ wStack' = Append([wStack EXCEPT ![Len(wStack)].todo =
                                                    Top.todo \ {full}],
                                  Frame(full, Top.depth + 1))
              /\ wPc' = "enter"
  /\ UNCHANGED <<wFs, wId, wRoots, wMaxDepth, wCheckouts, wRoot, wRead,
                 normVars, scanVars, resVars, concVars, daemonVars, httpVars>>

\* The loop of walkDir has taken every entry (prompt-builder.js:608).
WalkReturn ==
  /\ wPc = "loop" /\ Top.todo = {}
  /\ ReturnsNull
  /\ UNCHANGED <<wFs, wId, wRoots, wMaxDepth, wCheckouts, wRead, wResult,
                 normVars, scanVars, resVars, concVars, daemonVars, httpVars>>

WalkIdle ==
  /\ wPc = "idle" /\ wFs = EmptyFs /\ wId = Null /\ wRoots = <<>>
  /\ wMaxDepth = 0 /\ wCheckouts = {} /\ wRoot = 0
  /\ wStack = <<>> /\ wRead = {}
  /\ wResult = NullPath

WalkNext ==
  \/ ScanBegin
  \/ ScanRoot
  \/ WalkEnter
  \/ WalkEntry
  \/ WalkReturn

(***************************************************************************)
(* Resolver: calls of cacheStore, cacheLookup and resolveRepo, one after   *)
(* the other, with directories removed and remotes changed in between.     *)
(***************************************************************************)

\* Calls in one run; the clock shows 1 at the first call and advances by
\* one with every call.
MaxCalls == 2

IdHXR == CanonicalId(RepoHXR)

\* The identifiers cacheStore and cacheLookup are called with: two
\* repositories, and a name every object inherits.
CallIds == {IdHOR, IdHXR, ProtoKey}

PathDDR == BaseDD \o <<NameLower>>
PathDDAR == BaseDD \o <<NamePlain, NameLower>>
PathWR == BaseW \o <<NameLower>>

\* The paths cacheStore is called with: ~/dd/r and /w/r, which may exist,
\* and ~/dd/a/r, which does not.
StorePaths == {PathDDR, PathDDAR, PathWR}

\* What the directory below ~/dd is.
CheckoutKinds == {"clone", "other", "broken"}

\* ~/dd/r is a clone of h/o/r or of h/x/r or a directory git fails in, and
\* /w/r is a worktree of h/o/r or does not exist.
ResolverFilesystems ==
  {FsOf({[path |-> PathDDR, kind |-> k]}) : k \in CheckoutKinds}
  \cup
  {FsOf({[path |-> PathDDR, kind |-> k], [path |-> PathWR, kind |-> "worktree"]}) :
     k \in CheckoutKinds}

\* What `git remote -v` can be made to list in a checkout.
RemoteChoices == {KindRemotes("clone"), KindRemotes("other")}

\* config.json: nothing set, or both search roots and depth 1 set.
Configs ==
  {[hasPaths |-> FALSE, paths |-> <<>>, hasDepth |-> FALSE, depth |-> 0],
   [hasPaths |-> TRUE, paths |-> <<RootW, RootTildeDD>>,
    hasDepth |-> TRUE, depth |-> 1]}

PathDDAAR == BaseDD \o <<NamePlain, NamePlain, NameLower>>

\* ~/dd/a/a/r is a clone of h/o/r: two directories lie between the search
\* root ~/dd and the checkout.
DeepFilesystem == FsOf({[path |-> PathDDAAR, kind |-> "clone"]})

\* config.json as `claude-fix config set GIT_SEARCH_MAX_DEPTH <n>` leaves
\* it (bin/claude-fix.js:301-302) for n = 0 and n = 1, both search roots
\* set.
DepthConfigs ==
  {[hasPaths |-> TRUE, paths |-> <<RootW, RootTildeDD>>,
    hasDepth |-> TRUE, depth |-> n] : n \in {0, 1}}

\* The filesystem and the configuration a run starts with.
ResolverSetups ==
  {[fs |-> fs, config |-> config] :
     fs \in ResolverFilesystems, config \in Configs}
  \cup {[fs |-> DeepFilesystem, config |-> config] :
          config \in Configs \cup DepthConfigs}

\* The raw identifiers resolveRepo is called with, each with the
\* repository it spells: h/o/r as ssh URL ending in .git, as bare upper
\* case host/path with trailing slashes, as https URL ending in .git and a
\* slash; h/x/r as ssh URL; a blank string and null, which spell none.
ResolveInputs ==
  {[repo |-> IdHOR, raw |-> Spelling(RepoHOR, "ssh", "mixed", TRUE, 0)],
   [repo |-> IdHOR, raw |-> Spelling(RepoHOR, "bare", "upper", FALSE, 2)],
   [repo |-> IdHOR, raw |-> Spelling(RepoHOR, "https", "lower", TRUE, 1)],
   [repo |-> IdHXR, raw |-> Spelling(RepoHXR, "ssh", "lower", TRUE, 0)],
   [repo |-> Null, raw |-> <<" ">>],
   [repo |-> Null, raw |-> Null]}

\* A call as remembered: the operation, its identifier (normalized, for
\* resolve), the raw input and the repository it spells (resolve), the
\* path stored (store), whether the cache held an entry for the identifier
\* before the call and with which path, the value returned, whether
\* cacheLookup and scanForRepo were called, and whether the call threw.
NoCall ==
  [op |-> "none", id |-> Null, raw |-> Null, repo |-> Null,
   path |-> NullPath, had |-> FALSE, hadPath |-> NullPath,
   result |-> NullPath, looked |-> FALSE, scanned |-> FALSE,
   raised |-> FALSE]

\* The identifiers the cache file has entries for.
EntryIds(file) == DOMAIN loadCache(file).entries

EntryPath(file, id) ==
  IF id \in EntryIds(file) THEN loadCache(file).entries[id].path ELSE NullPath

\* The cache file before the first call: none yet, or one holding h/x/r
\* at ~/dd/r; ~/.claude-fix can be written.
FreshFiles ==
  {[kind |-> "missing", entries |-> NoEntries, writable |-> TRUE],
   [kind |-> "json",
    entries |-> [id \in {IdHXR} |-> [path |-> PathDDR, lastUsed |-> 0]],
    writable |-> TRUE]}

ResolverInit ==
  /\ \E setup \in ResolverSetups : rFs = setup.fs /\ rConfig = setup.config
  /\ rCacheFile \in FreshFiles
  /\ rNow = 1
  /\ rLast = NoCall
  /\ rPrev = NoCall

\* cacheStore(id, path)
Store(id, path) ==
  /\ rNow <= MaxCalls
  /\ LET out == cacheStore(rCacheFile, id, path, rNow) IN
       /\ rCacheFile' = out.file
       /\ rLast' = [NoCall EXCEPT !.op = "store", !.id = id, !.path = path,
                                   !.had = id \in EntryIds(rCacheFile),
                                   !.hadPath = EntryPath(rCacheFile, id),
                                   !.raised = out.raised]
  /\ rPrev' = rLast
  /\ rNow' = rNow + 1
  /\ UNCHANGED <<rFs, rConfig, normVars, scanVars, concVars, laterVars>>

\* cacheLookup(id)
Lookup(id) ==
  /\ rNow <= MaxCalls
  /\ LET out == cacheLookup(rFs, rCacheFile, id, rNow) IN
       /\ rCacheFile' = out.file
       /\ rLast' = [NoCall EXCEPT !.op = "lookup", !.id = id,
                                   !.had = id \in EntryIds(rCacheFile),
                                   !.hadPath = EntryPath(rCacheFile, id),
                                   !.result = out.result, !.looked = TRUE,
                                   !.raised = out.raised]
  /\ rPrev' = rLast
  /\ rNow' = rNow + 1
  /\ UNCHANGED <<rFs, rConfig, normVars, scanVars, concVars, laterVars>>

\* resolveRepo(x.raw)
Resolve(x) ==
  /\ rNow <= MaxCalls
  /\ \E out \in resolveRepo(rFs, rCacheFile, rConfig, x.raw, rNow) :
       LET id == normalizeRepoUrl(x.raw) IN
       /\ rCacheFile' = out.file
       /\ rLast' = [NoCall EXCEPT !.op = "resolve", !.id = id, !.raw = x.raw,
                                   !.repo = x.repo,
                                   !.had = id \in EntryIds(rCacheFile),
                                   !.hadPath = EntryPath(rCacheFile, id),
                                   !.result = out.result,
                                   !.looked = out.looked,
                                   !.scanned = out.scanned,
                                   !.raised = out.raised]
  /\ rPrev' = rLast
  /\ rNow' = rNow + 1
  /\ UNCHANGED <<rFs, rConfig, normVars, scanVars, concVars, laterVars>>

\* rm -rf dir, between two calls.
RemoveDir(dir) ==
  /\ dir \in DOMAIN rFs.remotes
  /\ rFs' = [dirs |-> {d \in rFs.dirs : ~IsPrefix(dir, d)},
             files |-> {d \in rFs.files : ~IsPrefix(dir, d)},
             unreadable |-> {d \in rFs.unreadable : ~IsPrefix(dir, d)},
             remotes |-> [d \in {e \in DOMAIN rFs.remotes : ~IsPrefix(dir, e)}
                            |-> rFs.remotes[d]]]
  /\ rLast' = [NoCall EXCEPT !.op = "env"]
  /\ rPrev' = NoCall
  /\ UNCHANGED <<rCacheFile, rConfig, rNow, normVars, scanVars, concVars, laterVars>>

\* git remote set-url / add / remove in dir, between two calls.
SetRemotes(dir, urls) ==
  /\ dir \in DOMAIN rFs.remotes
  /\ rFs.remotes[dir] # urls
  /\ rFs' = [rFs EXCEPT !.remotes[dir] = urls]
  /\ rLast' = [NoCall EXCEPT !.op = "env"]
  /\ rPrev' = NoCall
  /\ UNCHANGED <<rCacheFile, rConfig, rNow, normVars, scanVars, concVars, laterVars>>

ResolverIdle ==
  /\ rFs = EmptyFs
  /\ rCacheFile = [kind |-> "missing", entries |-> NoEntries,
                   writable |-> TRUE]
  /\ rConfig = [hasPaths |-> FALSE, paths |-> <<>>, hasDepth |-> FALSE,
                depth |-> 0]
  /\ rNow = 0 /\ rLast = NoCall /\ rPrev = NoCall

(***************************************************************************)
(* Faults: the same calls, started with a cache file that is missing,      *)
(* unreadable, not JSON, JSON of another shape or a mapping, in a          *)
(* directory that can or cannot be written.                                *)
(***************************************************************************)

FileKinds == {"missing", "unreadable", "garbage", "null", "list", "json"}

\* The entries of a cache file holding h/o/r at ~/dd/r.
OneEntry == [id \in {IdHOR} |-> [path |-> PathDDR, lastUsed |-> 0]]

FaultFiles ==
  {[kind |-> k, entries |-> IF k = "json" THEN OneEntry ELSE NoEntries,
    writable |-> w] : k \in FileKinds, w \in BOOLEAN}

FaultInit ==
  /\ rFs \in ResolverFilesystems
  /\ rCacheFile \in FaultFiles
  /\ rConfig \in Configs
  /\ rNow = 1
  /\ rLast = NoCall
  /\ rPrev = NoCall

(***************************************************************************)
(* Concurrency: processes that share the cache file, each making one call  *)
(* of cacheLookup or cacheStore.  readFileSync in loadCache and            *)
(* writeFileSync in saveCache are separate system calls and nothing locks  *)
(* the file, so the calls of different processes interleave between the    *)
(* two.                                                                    *)
(***************************************************************************)

\* Processes sharing the cache file.
NumProcs == 2

Procs == 1..NumProcs

\* What a process reads as the time: process p reads p.
Tick(p) == p

ConcOps ==
  {[op |-> "lookup", id |-> id, path |-> NullPath] : id \in {IdHOR, IdHXR}}
  \cup {[op |-> "store", id |-> IdHOR, path |-> PathDDR],
        [op |-> "store", id |-> IdHXR, path |-> PathWR]}

\* The cache file at the start: no entry; h/o/r at ~/dd/r or at ~/dd/a/r,
\* which does not exist; and that with h/x/r at ~/dd/r.
ConcFiles ==
  {[kind |-> "json", entries |-> e, writable |-> TRUE] :
     e \in {NoEntries, OneEntry,
            [id \in {IdHOR} |-> [path |-> PathDDAR, lastUsed |-> 0]],
            [id \in {IdHOR, IdHXR} |->
               [path |-> IF id = IdHOR THEN PathDDAR ELSE PathDDR,
                lastUsed |-> 0]]}}

\* ~/dd/r is a clone of h/o/r or of h/x/r.
ConcFilesystems ==
  {FsOf({[path |-> PathDDR, kind |-> k]}) : k \in {"clone", "other"}}

NoOp == [op |-> "none", id |-> Null, path |-> NullPath]

ConcInit ==
  /\ cFs \in ConcFilesystems
  /\ cFile \in ConcFiles
  /\ cOp \in [Procs -> ConcOps]
  /\ cPc = [p \in Procs |-> "start"]
  /\ cSeen = [p \in Procs |-> cFile]
  /\ cLoaded = [p \in Procs |-> loadCache(cFile)]
  /\ cWriter = 0
  /\ cStage = [p \in Procs |-> "call"]
  /\ cResult = [p \in Procs |-> NullPath]

\* The value process p passes to saveCache: the value it loaded, with the
\* entry of its identifier set (prompt-builder.js:544-547), deleted
\* (519, 529) or refreshed (536).
Changed(cache, op, fs, now) ==
  IF op.op = "store"
    THEN Put(cache, op.id, [path |-> op.path, lastUsed |-> now])
  ELSE LET entry == Get(cache, op.id) IN
    IF ~ExistsSync(fs, entry.path) \/ ~RemotesInclude(fs, entry.path, op.id)
      THEN Delete(cache, op.id)
      ELSE Put(cache, op.id, [entry EXCEPT !.lastUsed = now])

\* loadCache() in process p (prompt-builder.js:513, 543); cacheLookup
\* returns at once when the value has no entry for its identifier (515).
ConcLoad(p) ==
  /\ cPc[p] = "start"
  /\ cSeen' = [cSeen EXCEPT ![p] = cFile]
  /\ cLoaded' = [cLoaded EXCEPT ![p] = loadCache(cFile)]
  /\ cPc' = [cPc EXCEPT ![p] =
               IF cOp[p].op = "lookup" /\ ~HasEntry(loadCache(cFile), cOp[p].id)
                 THEN "done" ELSE "loaded"]
  /\ UNCHANGED <<cFs, cFile, cOp, cWriter, cStage, cResult,
                 normVars, scanVars, resVars, laterVars>>

\* saveCache that reads the file again and changes what it holds now.
ConcSave_rereads(p) ==
  /\ cPc[p] = "loaded"
  /\ cFile' = WrittenFile(Changed(loadCache(cFile), cOp[p], cFs, Tick(p)))
  /\ cWriter' = p
  /\ cPc' = [cPc EXCEPT ![p] = "done"]
  /\ UNCHANGED <<cFs, cOp, cSeen, cLoaded, cStage, cResult,
                 normVars, scanVars, resVars, laterVars>>

\* saveCache(cache) in process p (prompt-builder.js:520, 530, 537, 548):
\* the file is overwritten with the value the process holds.
ConcSave(p) ==
  /\ cPc[p] = "loaded"
  /\ cFile' = WrittenFile(Changed(cLoaded[p], cOp[p], cFs, Tick(p)))
  /\ cWriter' = p
  /\ cPc' = [cPc EXCEPT ![p] = "done"]
  /\ UNCHANGED <<cFs, cOp, cSeen, cLoaded, cStage, cResult,
                 normVars, scanVars, resVars, laterVars>>

ConcIdle ==
  /\ cFs = EmptyFs
  /\ cFile = [kind |-> "missing", entries |-> NoEntries, writable |-> TRUE]
  /\ cOp = [p \in Procs |-> NoOp]
  /\ cPc = [p \in Procs |-> "done"]
  /\ cSeen = [p \in Procs |-> cFile]
  /\ cLoaded = [p \in Procs |-> loadCache(cFile)]
  /\ cWriter = 0
  /\ cStage = [p \in Procs |-> "call"]
  /\ cResult = [p \in Procs |-> NullPath]

(***************************************************************************)
(* Concurrency: processes that share the cache file, each in a call of     *)
(* resolveRepo: its cacheLookup, then on a miss its scan and, when the     *)
(* scan finds a checkout, its cacheStore.                                  *)
(***************************************************************************)

\* The identifiers resolved.
ResolveIds == {IdHOR, IdHXR}

ResolveInit ==
  /\ cFs \in ConcFilesystems
  /\ cFile \in ConcFiles
  /\ cOp \in [Procs -> {[op |-> "lookup", id |-> id, path |-> NullPath] :
                          id \in ResolveIds}]
  /\ cPc = [p \in Procs |-> "start"]
  /\ cSeen = [p \in Procs |-> cFile]
  /\ cLoaded = [p \in Procs |-> loadCache(cFile)]
  /\ cWriter = 0
  /\ cStage = [p \in Procs |-> "lookup"]
  /\ cResult = [p \in Procs |-> NullPath]

\* cacheLookup returning the path of the entry whether or not it is valid.
Returned_unvalidated(cache, op, fs) ==
  IF ~HasEntry(cache, op.id) THEN NullPath ELSE Get(cache, op.id).path

\* What cacheLookup returns from the value it loaded
\* (prompt-builder.js:514-539): the path of the entry of its identifier
\* when that exists and has a matching remote, null otherwise.
Returned(cache, op, fs) ==
  IF ~HasEntry(cache, op.id) THEN NullPath
  ELSE LET entry == Get(cache, op.id) IN
    IF ~ExistsSync(fs, entry.path) \/ ~RemotesInclude(fs, entry.path, op.id)
      THEN NullPath
      ELSE entry.path

\* resolveRepo after its cacheLookup (prompt-builder.js:641-660): the
\* cached path is returned; or the scan runs with the default search paths
\* and depth, and what it finds is passed to cacheStore; or null is
\* returned.
ConcScan(p) ==
  /\ cPc[p] = "done" /\ cStage[p] = "lookup"
  /\ LET cached == Returned(cLoaded[p], cOp[p], cFs) IN
     IF cached # NullPath
       THEN /\ cResult' = [cResult EXCEPT ![p] = cached]
            /\ cStage' = [cStage EXCEPT ![p] = "returned"]
            /\ UNCHANGED <<cOp, cPc>>
       ELSE \E found \in scanForRepo(cFs, cOp[p].id, DefaultSearchPaths,
                                     DefaultMaxDepth) :
              /\ cResult' = [cResult EXCEPT ![p] = found]
              /\ IF found = NullPath
                   THEN /\ cStage' = [cStage EXCEPT ![p] = "returned"]
                        /\ UNCHANGED <<cOp, cPc>>
                   ELSE /\ cStage' = [cStage EXCEPT ![p] = "store"]
                        /\ cOp' = [cOp EXCEPT ![p] =
                                     [op |-> "store", id |-> cOp[p].id,
                                      path |-> found]]
                        /\ cPc' = [cPc EXCEPT ![p] = "start"]
  /\ UNCHANGED <<cFs, cFile, cSeen, cLoaded, cWriter,
                 normVars, scanVars, resVars, laterVars>>

\* resolveRepo returns what the scan found, after its cacheStore
\* (prompt-builder.js:656-657).
ConcReturn(p) ==
  /\ cPc[p] = "done" /\ cStage[p] = "store"
  /\ cStage' = [cStage EXCEPT ![p] = "returned"]
  /\ UNCHANGED <<cFs, cFile, cOp, cPc, cSeen, cLoaded, cWriter, cResult,
                 normVars, scanVars, resVars, laterVars>>

(***************************************************************************)
(* The daemon: `serve` processes, the PID file and `status`                *)
(***************************************************************************)

\* The number of `serve` processes started.
MaxServes == 3
Pids == 1..MaxServes

\* process.kill(pid, 0) succeeds (claude-fix.js:67): the process exists.
Alive(pc, pid) == pid \in Pids /\ pc[pid] \in {"wrote", "listening"}

NoStatus == [asked |-> FALSE, listening |-> FALSE, result |-> FALSE]

DaemonInit ==
  /\ dPc = [p \in Pids |-> "none"]
  /\ dPidFile = 0 /\ dListener = 0
  /\ dStatus = NoStatus

\* cmdServe up to createServer (claude-fix.js:83-97): the PID file is
\* written with the pid of the process and the signal handlers are set.
ServeWritePid(p) ==
  /\ dPc[p] = "none"
  /\ dPidFile' = p
  /\ dPc' = [dPc EXCEPT ![p] = "wrote"]
  /\ UNCHANGED <<dListener, dStatus,
                 normVars, scanVars, resVars, concVars, walkVars, httpVars>>

\* createServer (prompt-builder.js:380-399): the server listens, or the
\* port is in use and the 'error' handler ends the process with
\* process.exit(1).
ServeListen(p) ==
  /\ dPc[p] = "wrote"
  /\ IF dListener = 0
       THEN dListener' = p /\ dPc' = [dPc EXCEPT ![p] = "listening"]
       ELSE dListener' = dListener /\ dPc' = [dPc EXCEPT ![p] = "exited"]
  /\ UNCHANGED <<dPidFile, dStatus,
                 normVars, scanVars, resVars, concVars, walkVars, httpVars>>

\* SIGINT or SIGTERM reaches process p (claude-fix.js:90-97): the handler
\* removes the PID file and ends the process; when the file is gone
\* unlinkSync throws and the process ends as well.
ServeSignal(p) ==
  /\ dPc[p] \in {"wrote", "listening"}
  /\ dPidFile' = 0
  /\ dListener' = IF dListener = p THEN 0 ELSE dListener
  /\ dPc' = [dPc EXCEPT ![p] = "exited"]
  /\ UNCHANGED <<dStatus,
                 normVars, scanVars, resVars, concVars, walkVars, httpVars>>

\* isRunning, as `status` and `start` call it (claude-fix.js:60-74): false
\* without a PID file; true when the process the file names exists;
\* otherwise the file is removed and the answer is false.
IsRunning ==
  /\ dStatus' = [asked |-> TRUE, listening |-> dListener # 0,
                 result |-> dPidFile # 0 /\ Alive(dPc, dPidFile)]
  /\ dPidFile' = IF dPidFile # 0 /\ ~Alive(dPc, dPidFile) THEN 0 ELSE dPidFile
  /\ UNCHANGED <<dPc, dListener,
                 normVars, scanVars, resVars, concVars, walkVars, httpVars>>

DaemonIdle ==
  /\ dPc = [p \in Pids |-> "none"]
  /\ dPidFile = 0 /\ dListener = 0
  /\ dStatus = NoStatus

DaemonNext ==
  \/ \E p \in Pids : ServeWritePid(p)
  \/ \E p \in Pids : ServeListen(p)
  \/ \E p \in Pids : ServeSignal(p)
  \/ IsRunning

(***************************************************************************)
(* The HTTP server: requests handled by requestHandler                     *)
(***************************************************************************)

\* The number of requests the server receives.
MaxRequests == 2
Requests == 1..MaxRequests

NoRequest == [method |-> "none", pathname |-> "none", data |-> "none"]

\* A request: its method, the path of its URL and its query parameter
\* `data`, absent, empty or holding a value.
Methods == {"GET", "OPTIONS", "POST"}
Pathnames == {"/dd/claude-fix", "/dd/health", "/"}
DataParams == {"absent", "empty", "value"}
HttpRequests == [method : Methods, pathname : Pathnames, data : DataParams]

HttpInit ==
  /\ hPc = [r \in Requests |-> "none"]
  /\ hReq = [r \in Requests |-> NoRequest]
  /\ hFetch = [r \in Requests |-> "none"]
  /\ hSent = [r \in Requests |-> <<>>]
  /\ hSpawned = [r \in Requests |-> 0]

\* sendJson, and writeHead with end (prompt-builder.js:287-295, 358-363).
Sent(r, statusCode) == [hSent EXCEPT ![r] = Append(@, statusCode)]

\* requestHandler with handleFix up to its await and handleHealth
\* (prompt-builder.js:353-375, 300-308, 339-348).
RequestHandler(r, req) ==
  /\ hPc[r] = "none"
  /\ hReq' = [hReq EXCEPT ![r] = req]
  /\ IF req.method = "OPTIONS"
       THEN hSent' = Sent(r, 204) /\ hPc' = [hPc EXCEPT ![r] = "done"]
     ELSE IF req.pathname = "/dd/claude-fix" /\ req.method = "GET"
       THEN IF req.data # "value"
              THEN hSent' = Sent(r, 400) /\ hPc' = [hPc EXCEPT ![r] = "done"]
              ELSE hSent' = hSent /\ hPc' = [hPc EXCEPT ![r] = "fetching"]
     ELSE IF req.pathname = "/dd/health" /\ req.method = "GET"
       THEN hSent' = Sent(r, 200) /\ hPc' = [hPc EXCEPT ![r] = "done"]
     ELSE hSent' = Sent(r, 404) /\ hPc' = [hPc EXCEPT ![r] = "done"]
  /\ hFetch' = [hFetch EXCEPT ![r] =
                  IF hPc'[r] = "fetching" THEN "pending" ELSE "none"]
  /\ UNCHANGED <<hSpawned,
                 normVars, scanVars, resVars, concVars, walkVars, daemonVars>>

\* handleFix after fetchDatadogPrompt resolved (prompt-builder.js:308-330):
\* the 200 response is sent and the timer for spawnTerminal is set.
FetchResolves(r) ==
  /\ hPc[r] = "fetching"
  /\ hFetch' = [hFetch EXCEPT ![r] = "resolved"]
  /\ hSent' = Sent(r, 200)
  /\ hPc' = [hPc EXCEPT ![r] = "timer"]
  /\ UNCHANGED <<hReq, hSpawned,
                 normVars, scanVars, resVars, concVars, walkVars, daemonVars>>

\* handleFix after fetchDatadogPrompt rejected (prompt-builder.js:331-333).
FetchRejects(r) ==
  /\ hPc[r] = "fetching"
  /\ hFetch' = [hFetch EXCEPT ![r] = "rejected"]
  /\ hSent' = Sent(r, 500)
  /\ hPc' = [hPc EXCEPT ![r] = "done"]
  /\ UNCHANGED <<hReq, hSpawned,
                 normVars, scanVars, resVars, concVars, walkVars, daemonVars>>

\* The timer of handleFix fires and calls spawnTerminal
\* (prompt-builder.js:326-327).
TimerFires(r) ==
  /\ hPc[r] = "timer"
  /\ hSpawned' = [hSpawned EXCEPT ![r] = @ + 1]
  /\ hPc' = [hPc EXCEPT ![r] = "spawning"]
  /\ UNCHANGED <<hReq, hFetch, hSent,
                 normVars, scanVars, resVars, concVars, walkVars, daemonVars>>

\* The end of spawnTerminal with a failure answered with a 500 response.
SpawnSettles_answersFailure(r, ok) ==
  /\ hPc[r] = "spawning"
  /\ hPc' = [hPc EXCEPT ![r] = IF ok THEN "done" ELSE "failed"]
  /\ hSent' = IF ok THEN hSent ELSE Sent(r, 500)
  /\ UNCHANGED <<hReq, hFetch, hSpawned,
                 normVars, scanVars, resVars, concVars, walkVars, daemonVars>>

\* The promise of spawnTerminal settles (prompt-builder.js:327-329): a
\* rejection is logged with console.error.
SpawnSettles(r, ok) ==
  /\ hPc[r] = "spawning"
  /\ hPc' = [hPc EXCEPT ![r] = IF ok THEN "done" ELSE "failed"]
  /\ UNCHANGED <<hReq, hFetch, hSent, hSpawned,
                 normVars, scanVars, resVars, concVars, walkVars, daemonVars>>

HttpIdle ==
  /\ hPc = [r \in Requests |-> "none"]
  /\ hReq = [r \in Requests |-> NoRequest]
  /\ hFetch = [r \in Requests |-> "none"]
  /\ hSent = [r \in Requests |-> <<>>]
  /\ hSpawned = [r \in Requests |-> 0]

HttpNext ==
  \/ \E r \in Requests, req \in HttpRequests : RequestHandler(r, req)
  \/ \E r \in Requests : FetchResolves(r)
  \/ \E r \in Requests : FetchRejects(r)
  \/ \E r \in Requests : TimerFires(r)
  \/ \E r \in Requests, ok \in BOOLEAN : SpawnSettles(r, ok)

(***************************************************************************)
(* Specifications                                                          *)
(***************************************************************************)

LaterIdle == WalkIdle /\ DaemonIdle /\ HttpIdle

Next ==
  \/ \E id \in CallIds, path \in StorePaths : Store(id, path)
  \/ \E id \in CallIds : Lookup(id)
  \/ \E x \in ResolveInputs : Resolve(x)
  \/ \E dir \in StorePaths : RemoveDir(dir)
  \/ \E dir \in StorePaths, urls \in RemoteChoices : SetRemotes(dir, urls)

Init == ResolverInit /\ NormIdle /\ ScanIdle /\ ConcIdle /\ LaterIdle

Spec == Init /\ [][Next]_vars

InitNorm == NormInit /\ ScanIdle /\ ResolverIdle /\ ConcIdle /\ LaterIdle

SpecNorm == InitNorm /\ [][NormNext]_vars

InitScan == ScanInit /\ NormIdle /\ ResolverIdle /\ ConcIdle /\ LaterIdle

SpecScan == InitScan /\ [][ScanNext]_vars

NextFault ==
  \/ \E id \in CallIds, path \in StorePaths : Store(id, path)
  \/ \E id \in CallIds : Lookup(id)
  \/ \E x \in ResolveInputs : Resolve(x)

InitFault == FaultInit /\ NormIdle /\ ScanIdle /\ ConcIdle /\ LaterIdle

SpecFault == InitFault /\ [][NextFault]_vars

NextConc ==
  \/ \E p \in Procs : ConcLoad(p)
  \/ \E p \in Procs : ConcSave(p)

InitConc == ConcInit /\ NormIdle /\ ScanIdle /\ ResolverIdle /\ LaterIdle

SpecConc == InitConc /\ [][NextConc]_vars

NextResolve ==
  \/ \E p \in Procs : ConcLoad(p)
  \/ \E p \in Procs : ConcSave(p)
  \/ \E p \in Procs : ConcScan(p)
  \/ \E p \in Procs : ConcReturn(p)

InitResolve ==
  ResolveInit /\ NormIdle /\ ScanIdle /\ ResolverIdle /\ LaterIdle

SpecResolve == InitResolve /\ [][NextResolve]_vars

InitDaemon ==
  /\ DaemonInit /\ NormIdle /\ ScanIdle /\ ResolverIdle /\ ConcIdle
  /\ WalkIdle /\ HttpIdle

SpecDaemon == InitDaemon /\ [][DaemonNext]_vars

InitHttp ==
  /\ HttpInit /\ NormIdle /\ ScanIdle /\ ResolverIdle /\ ConcIdle
  /\ WalkIdle /\ DaemonIdle

SpecHttp == InitHttp /\ [][HttpNext]_vars

InitWalk ==
  /\ WalkInit /\ NormIdle /\ ScanIdle /\ ResolverIdle /\ ConcIdle
  /\ DaemonIdle /\ HttpIdle

\* scanForRepo is synchronous code of one thread: once called it takes its
\* next step as long as it has one.
SpecWalk == InitWalk /\ [][WalkNext]_vars /\ WF_vars(WalkNext)

(***************************************************************************)
(* Properties of the scan                                                  *)
(***************************************************************************)

ScanDone == sPc = "done"

\* The checkouts of the identifier in the filesystem scanned.
Conforming == sConforming

NamedAlike(d) == ToLowerCase(d[Len(d)]) = ToLowerCase(extractRepoName(sId))

\* The search roots, home directory expanded.
ListedBase(i) == ExpandHome(sRoots[i])

\* c lies below base, no name from base down to c is a Skip-Set name and
\* every directory from base down to c's parent can be read.
ClearBelow(base, c) ==
  /\ IsPrefix(base, c) /\ Len(c) > Len(base)
  /\ \A k \in (Len(base) + 1)..Len(c) : c[k] \notin SKIP_DIRS
  /\ \A k \in Len(base)..(Len(c) - 1) : SubSeq(c, 1, k) \notin sFs.unreadable

\* The number of descents from base to c: base is at depth 0.
DepthBelow(base, c) == Len(c) - Len(base)

\* C7: a path the scan returns is a directory named like the repo name up
\* to letter case, which directly holds a .git entry (directory or file)
\* and one of whose remotes normalizes exactly to the identifier.
C7_ScanSound ==
  (ScanDone /\ sResult # NullPath) => Conforms(sFs, sResult, sId)

\* The scan has passed a directory with the right name that is no checkout
\* of the identifier and returned a checkout below it.
C7_Witness ==
  /\ ScanDone /\ sResult # NullPath
  /\ \E d \in sFs.dirs :
       /\ d # sResult /\ IsPrefix(d, sResult) /\ NamedAlike(d)
       /\ d \in DOMAIN sFs.remotes
       /\ ~Conforms(sFs, d, sId)

\* C8 as stated: with the search root at depth 0 and each descent adding 1,
\* the only conforming checkout, at depth d with no skipped name on its
\* path, is returned when maxDepth >= d and not returned when maxDepth < d.
C8_DepthBoundaryAsStated ==
  ScanDone =>
    LET conforming == Conforming IN
    \A c \in conforming : \A i \in 1..Len(sRoots) :
      (conforming = {c} /\ ClearBelow(ListedBase(i), c)) =>
        /\ sMaxDepth >= DepthBelow(ListedBase(i), c) => sResult = c
        /\ sMaxDepth < DepthBelow(ListedBase(i), c) => sResult = NullPath

\* C8 amended: the only conforming checkout, at depth d, is returned when
\* maxDepth >= d - 1 and not returned when maxDepth < d - 1.
C8_DepthBoundary ==
  ScanDone =>
    LET conforming == Conforming IN
    \A c \in conforming : \A i \in 1..Len(sRoots) :
      (conforming = {c} /\ ClearBelow(ListedBase(i), c)) =>
        /\ sMaxDepth >= DepthBelow(ListedBase(i), c) - 1 => sResult = c
        /\ sMaxDepth < DepthBelow(ListedBase(i), c) - 1 => sResult = NullPath

\* The only checkout lies one descent deeper than maxDepth, below at least
\* one directory, and is returned.
C8_Witness ==
  /\ ScanDone /\ sMaxDepth >= 1 /\ sResult # NullPath
  /\ Conforming = {sResult}
  /\ \E i \in 1..Len(sRoots) :
       /\ ClearBelow(ListedBase(i), sResult)
       /\ DepthBelow(ListedBase(i), sResult) = sMaxDepth + 1

\* c lies inside a directory whose name is in the Skip-Set.
InsideSkipped(c) == \E k \in 1..(Len(c) - 1) : c[k] \in SKIP_DIRS

\* C9: a checkout inside a directory whose name is in the Skip-Set is never
\* returned, whatever its depth and maxDepth, even if it conforms.
C9_SkipSetEnforced ==
  ScanDone => \A c \in Conforming : InsideSkipped(c) => sResult # c

\* The only checkout conforms, lies inside a skipped directory below a
\* search root, within the depth scanned, and nothing is returned.
C9_Witness ==
  /\ ScanDone /\ sResult = NullPath
  /\ \E c \in Conforming : \E i \in 1..Len(sRoots) :
       /\ Conforming = {c} /\ InsideSkipped(c)
       /\ IsPrefix(ListedBase(i), c)
       /\ DepthBelow(ListedBase(i), c) - 1 <= sMaxDepth

\* c conforms and the walk from search root i gets to it.
Reachable(i, c) ==
  /\ ClearBelow(ListedBase(i), c)
  /\ DepthBelow(ListedBase(i), c) - 1 <= sMaxDepth

\* C10: when conforming checkouts reachable within maxDepth lie below two
\* different search roots, the scan returns one below the root listed
\* earlier, however deep each lies.
C10_EarlierRootWins ==
  ScanDone =>
    LET conforming == Conforming IN
    \A i, j \in 1..Len(sRoots) :
      (/\ i < j
       /\ \E c \in conforming : Reachable(i, c)
       /\ \E c \in conforming : Reachable(j, c))
      => IsPrefix(ListedBase(i), sResult)

\* Both roots hold a reachable checkout, the one below the root listed
\* first lies deeper, and it is the one returned.
C10_Witness ==
  /\ ScanDone /\ Len(sRoots) = 2 /\ sResult # NullPath
  /\ \E c1, c2 \in Conforming :
       /\ Reachable(1, c1) /\ Reachable(2, c2)
       /\ DepthBelow(ListedBase(1), c1) > DepthBelow(ListedBase(2), c2)
       /\ sResult = c1

\* C11: for a lower-case identifier, a directory whose name differs from
\* the identifier's repo name only in letter case, which holds a .git entry
\* and has a remote normalizing exactly to the identifier, is returned by
\* the scan: it is the result when the walk gets to it and nothing else
\* conforms.
C11_NameMatchIgnoresCase ==
  ScanDone =>
    LET conforming == Conforming IN
    \A c \in conforming :
      (/\ c[Len(c)] # extractRepoName(sId)
       /\ conforming = {c}
       /\ \E i \in 1..Len(sRoots) : Reachable(i, c))
      => sResult = c

\* The identifier is in lower case and the scan has returned a directory
\* named in upper case.
C11_Witness ==
  /\ ScanDone /\ sResult # NullPath
  /\ sId = ToLowerCase(sId)
  /\ sResult[Len(sResult)] = NameUpper
  /\ NameUpper # extractRepoName(sId)

\* C19: a search root that does not exist and a directory that cannot be
\* read do not end the scan: whenever the walk from some listed root gets
\* to a conforming checkout, the scan returns a conforming checkout, and
\* never one that lies below a directory that cannot be read.
C19_ScanErrorsAreLocal ==
  ScanDone =>
    LET conforming == Conforming IN
    /\ (\E c \in conforming : \E i \in 1..Len(sRoots) : Reachable(i, c))
         => sResult \in conforming
    /\ sResult # NullPath =>
         \A k \in 1..(Len(sResult) - 1) :
           SubSeq(sResult, 1, k) \notin sFs.unreadable

\* The search root listed first does not exist, a directory below the
\* second one cannot be read, and the scan has returned a checkout below
\* the second root.
C19_Witness ==
  /\ ScanDone /\ Len(sRoots) = 2 /\ sResult # NullPath
  /\ ListedBase(1) \notin sFs.dirs
  /\ IsPrefix(ListedBase(2), sResult)
  /\ \E d \in sFs.unreadable : IsPrefix(ListedBase(2), d)

\* The directories between the search root base and c.
Intermediate(base, c) == Len(c) - Len(base) - 1

\* C27: with a single candidate and no skipped names, a matching checkout
\* with k directories between the search root and it is returned if and
\* only if k <= maxDepth: a direct child of the root is found with
\* maxDepth = 0, and root/a/a/repo is missed with maxDepth = 1 and found
\* with maxDepth = 2.
C27_DepthAsTested ==
  ScanDone =>
    LET conforming == Conforming IN
    /\ \A c \in conforming : \A i \in 1..Len(sRoots) :
         (conforming = {c} /\ ClearBelow(ListedBase(i), c)) =>
           (sResult = c <=> Intermediate(ListedBase(i), c) <= sMaxDepth)
    /\ (sFs = TestedFilesystem /\ sRoots[1] = RootW) =>
         /\ sMaxDepth = 1 => sResult = NullPath
         /\ sMaxDepth = 2 => sResult = PathWAAR

\* /w/a/a/r, the only checkout, has been found with maxDepth = 2.
C27_Witness ==
  /\ ScanDone /\ sFs = TestedFilesystem /\ sMaxDepth = 2
  /\ Conforming = {PathWAAR}
  /\ sResult = PathWAAR

\* c1 and c2 are the conforming checkouts, both reached from search root
\* i, c1 with fewer directories above it.
TwoBelowRoot(i, c1, c2) ==
  /\ Conforming = {c1, c2}
  /\ Reachable(i, c1) /\ Reachable(i, c2)
  /\ Len(c1) < Len(c2)

\* C28 as stated: when two directories below the same search root both
\* match by name and remote and both are reachable within maxDepth, the
\* scan returns the shallower one, whatever the order in which sibling
\* directories are enumerated.
C28_ShallowerWins ==
  ScanDone =>
    \A c1, c2 \in Conforming : \A i \in 1..Len(sRoots) :
      TwoBelowRoot(i, c1, c2) => sResult = c1

\* C28 amended: the scan returns one of the two; it returns the shallower
\* one when the deeper one lies below it, and otherwise the one the
\* depth-first enumeration comes to first, which can be the deeper one.
C28_FirstMetWins ==
  ScanDone =>
    \A c1, c2 \in Conforming : \A i \in 1..Len(sRoots) :
      TwoBelowRoot(i, c1, c2) =>
        /\ sResult \in {c1, c2}
        /\ IsPrefix(c1, c2) => sResult = c1

\* Two checkouts below the same root, the deeper one below the shallower
\* one, which is returned.
C28_Witness ==
  /\ ScanDone
  /\ \E c1, c2 \in Conforming : \E i \in 1..Len(sRoots) :
       /\ TwoBelowRoot(i, c1, c2)
       /\ IsPrefix(c1, c2)
       /\ sResult = c1

RejectedAbove(i, d, c) ==
  /\ d # c /\ IsPrefix(d, c) /\ Len(d) > Len(ListedBase(i))
  /\ NamedAlike(d) /\ ~Conforms(sFs, d, sId)

\* C35: a directory whose name matches the repo name but which lacks a
\* .git entry or a matching remote is descended into like any other
\* directory: the only conforming checkout, reachable within maxDepth, is
\* returned also when it lies below such a directory.
C35_RejectedDescended ==
  ScanDone =>
    LET conforming == Conforming IN
    \A c \in conforming : \A i \in 1..Len(sRoots) :
      (/\ conforming = {c} /\ Reachable(i, c)
       /\ \E d \in sFs.dirs : RejectedAbove(i, d, c))
      => sResult = c

\* The checkout returned lies below a directory with the repo name that
\* holds no .git entry.
C35_Witness ==
  /\ ScanDone /\ sResult # NullPath /\ Conforming = {sResult}
  /\ \E i \in 1..Len(sRoots) : \E d \in sFs.dirs :
       /\ Reachable(i, sResult) /\ RejectedAbove(i, d, sResult)
       /\ Join(d, DotGit) \notin sFs.dirs \cup sFs.files

WalkDone == wPc = "done"

\* The number of descents from its search root to a directory read.
Descents(r) == Len(r.dir) - Len(ExpandHome(wRoots[r.root]))

\* C33: for every directory tree, list of search roots and maxDepth >= 0
\* the scan runs to completion, and by then it has read the entries of no
\* directory that lies more than maxDepth descents below the search root
\* it was reached from.
C33_TerminatesDepthBounded ==
  <>(WalkDone /\ \A r \in wRead : Descents(r) <= wMaxDepth)

\* The scan has ended without a result, has read a directory maxDepth
\* descents below its search root and has left one further down unread.
C33_Witness ==
  /\ WalkDone /\ wResult = NullPath
  /\ \E r \in wRead :
       /\ Descents(r) = wMaxDepth
       /\ \E d \in wFs.dirs :
            /\ IsPrefix(r.dir, d) /\ Len(d) = Len(r.dir) + 1
            /\ d[Len(d)] \notin SKIP_DIRS
            /\ \E e \in wFs.dirs : IsPrefix(d, e) /\ Len(e) = Len(d) + 1
            /\ \A q \in wRead : q.dir # d

\* The scan taken step by step ends with a result of scanForRepo.
WalkAgrees ==
  WalkDone => wResult \in scanForRepo(wFs, wId, wRoots, wMaxDepth)

(***************************************************************************)
(* Properties of the cache and of resolveRepo                              *)
(***************************************************************************)

\* Some remote of the checkout at path q normalizes to id.
RemoteOf(fs, q, id) ==
  /\ q \in DOMAIN fs.remotes
  /\ \E i \in 1..Len(fs.remotes[q]) : normalizeRepoUrl(fs.remotes[q][i]) = id

OnDisk(fs, q) == q \in fs.dirs \cup fs.files

Persisted == IF rCacheFile.kind = "json" THEN DOMAIN rCacheFile.entries ELSE {}

\* The last call looked the identifier up in the cache: cacheLookup, or
\* resolveRepo answering from the cache.
LookedUp ==
  \/ rLast.op = "lookup"
  \/ rLast.op = "resolve" /\ rLast.looked /\ ~rLast.scanned

\* C1: after store(X, P), P an existing checkout with a remote normalizing
\* to X, an immediately following resolve(raw), raw any spelling of X,
\* returns P and invokes no scan.
C1_ResolveRoundTrip ==
  (/\ rLast.op = "resolve" /\ rPrev.op = "store"
   /\ rLast.repo = rPrev.id
   /\ OnDisk(rFs, rPrev.path) /\ RemoteOf(rFs, rPrev.path, rPrev.id))
  => (rLast.result = rPrev.path /\ ~rLast.scanned)

\* C2: a lookup returns a path only if the path exists on disk and the
\* remotes read from it, normalized, contain the identifier.
C2_CacheIsHint ==
  (LookedUp /\ rLast.result # NullPath) =>
    /\ rLast.had /\ rLast.result = rLast.hadPath
    /\ OnDisk(rFs, rLast.result)
    /\ RemoteOf(rFs, rLast.result, rLast.id)

\* A lookup after a change of the filesystem returns the cached path.
C2_Witness ==
  /\ rLast.op = "lookup" /\ rLast.result # NullPath
  /\ rPrev.op = "env"

\* C3: when the cache holds an entry for id whose path no longer exists,
\* lookup(id) returns null and the persisted cache has no entry for id
\* afterwards.
C3_EvictsDeletedPath ==
  (rLast.op = "lookup" /\ rLast.had /\ ~OnDisk(rFs, rLast.hadPath)) =>
    (rLast.result = NullPath /\ rLast.id \notin Persisted)

\* A lookup of an entry whose directory has just been removed.
C3_Witness ==
  /\ rLast.op = "lookup" /\ rLast.had /\ ~OnDisk(rFs, rLast.hadPath)
  /\ rPrev.op = "env"
  /\ rLast.result = NullPath

\* C4: when the cache holds an entry for id whose path exists but none of
\* whose remotes normalizes to id, lookup(id) returns null and the entry is
\* removed from the persisted cache.
C4_EvictsRemoteMismatch ==
  (/\ rLast.op = "lookup" /\ rLast.had
   /\ OnDisk(rFs, rLast.hadPath)
   /\ ~RemoteOf(rFs, rLast.hadPath, rLast.id)) =>
    (rLast.result = NullPath /\ rLast.id \notin Persisted)

\* A lookup of an entry whose checkout has just been given other remotes.
C4_Witness ==
  /\ rLast.op = "lookup" /\ rLast.had
  /\ OnDisk(rFs, rLast.hadPath)
  /\ ~RemoteOf(rFs, rLast.hadPath, rLast.id)
  /\ rPrev.op = "env"
  /\ rLast.result = NullPath

\* The step is a call: the clock advances with every call and stands still
\* otherwise.
IsCall == rNow' = rNow + 1

\* The entry of id in the persisted cache holds up: its path exists and one
\* of its remotes normalizes to id.
EntryValid(fs, file, id) ==
  /\ id \in EntryIds(file)
  /\ OnDisk(fs, EntryPath(file, id))
  /\ RemoteOf(fs, EntryPath(file, id), id)

\* C12: for a valid identifier resolve consults the cache first and scans
\* only if the lookup returned nothing (the entry is absent or does not
\* hold up); when the scan finds P, (id -> P) is stored before P is
\* returned, so that the next resolve of the same id, the filesystem
\* unchanged, returns P from the cache without scanning.
C12_PipelineOrder ==
  /\ (rLast.op = "resolve" /\ ~Falsy(rLast.id)) =>
       /\ rLast.looked
       /\ rLast.scanned <=>
            ~(/\ rLast.had /\ OnDisk(rFs, rLast.hadPath)
              /\ RemoteOf(rFs, rLast.hadPath, rLast.id))
       /\ (rLast.scanned /\ rLast.result # NullPath) =>
            EntryPath(rCacheFile, rLast.id) = rLast.result
  /\ (/\ rPrev.op = "resolve" /\ rPrev.scanned /\ rPrev.result # NullPath
      /\ rLast.op = "resolve" /\ rLast.id = rPrev.id) =>
       /\ rLast.result = rPrev.result
       /\ rLast.looked /\ ~rLast.scanned

\* A resolve that scanned and found a checkout, followed by a resolve of
\* the same identifier.
C12_Witness ==
  /\ rPrev.op = "resolve" /\ rPrev.scanned /\ rPrev.result # NullPath
  /\ rLast.op = "resolve" /\ rLast.id = rPrev.id
  /\ rLast.result = rPrev.result

\* C13: when normalize(raw) yields no identifier, resolve returns not-found,
\* calls neither cacheLookup nor scanForRepo and leaves the cache file as
\* it is.
C13_MalformedIdentifier ==
  [][(IsCall /\ rLast'.op = "resolve" /\ Falsy(rLast'.id)) =>
       /\ rLast'.result = NullPath /\ ~rLast'.raised
       /\ ~rLast'.looked /\ ~rLast'.scanned
       /\ rCacheFile' = rCacheFile]_vars

\* A resolve of a raw input that yields no identifier, made when the cache
\* file holds an entry and some search root holds a checkout.
C13_Witness ==
  /\ rLast.op = "resolve" /\ Falsy(rLast.id)
  /\ rLast.result = NullPath
  /\ Persisted # {}
  /\ DOMAIN rFs.remotes # {}

\* C15: store(id, path) inserts or overwrites exactly the entry of id:
\* afterwards the persisted mapping maps id to [path, lastUsed = the
\* current time] and every entry with another key is as it was persisted
\* before the call.
C15_StoreFrame ==
  [][(IsCall /\ rLast'.op = "store") =>
       /\ rCacheFile'.kind = "json"
       /\ EntryIds(rCacheFile') = EntryIds(rCacheFile) \cup {rLast'.id}
       /\ rCacheFile'.entries[rLast'.id] =
            [path |-> rLast'.path, lastUsed |-> rNow]
       /\ \A k \in EntryIds(rCacheFile) \ {rLast'.id} :
            rCacheFile'.entries[k] = rCacheFile.entries[k]]_vars

\* C16: when the entry of id passes both checks, lookup(id) returns the
\* stored path, persists the mapping with that entry's lastUsed set to the
\* current time, and leaves the entry's path and every other entry as they
\* were.
C16_HitRefreshesOnlyLastUsed ==
  [][(IsCall /\ rLast'.op = "lookup" /\ EntryValid(rFs, rCacheFile, rLast'.id)) =>
       /\ rLast'.result = EntryPath(rCacheFile, rLast'.id) /\ ~rLast'.raised
       /\ rCacheFile'.kind = "json"
       /\ EntryIds(rCacheFile') = EntryIds(rCacheFile)
       /\ rCacheFile'.entries[rLast'.id] =
            [path |-> EntryPath(rCacheFile, rLast'.id), lastUsed |-> rNow]
       /\ \A k \in EntryIds(rCacheFile) \ {rLast'.id} :
            rCacheFile'.entries[k] = rCacheFile.entries[k]]_vars

\* A lookup has hit, the entry carries the time of the lookup, and the
\* cache holds another entry, which carries an earlier time.
C16_Witness ==
  /\ rLast.op = "lookup" /\ rLast.result # NullPath
  /\ rLast.result = rLast.hadPath
  /\ rCacheFile.entries[rLast.id].lastUsed = rNow - 1
  /\ \E k \in Persisted \ {rLast.id} :
       rCacheFile.entries[k].lastUsed < rNow - 1

\* The cached path of the last call exists and git fails in it.
GitFailsInCachedPath ==
  /\ rLast.had /\ OnDisk(rFs, rLast.hadPath)
  /\ rLast.hadPath \notin DOMAIN rFs.remotes

\* C20: a failing remote query yields the empty sequence and no error:
\* getRepoRemotes is empty where git fails; a lookup whose cached path
\* exists but git fails in it treats the entry as stale (not-found, entry
\* removed, no error), a resolve does not return or keep that path, and a
\* scan never returns a directory git fails in.
C20_RemoteQueryFailureIsEmpty ==
  /\ \A d \in (rFs.dirs \cup StorePaths) \ DOMAIN rFs.remotes :
       getRepoRemotes(rFs, d) = <<>>
  /\ (rLast.op = "lookup" /\ GitFailsInCachedPath) =>
       /\ rLast.result = NullPath /\ ~rLast.raised
       /\ rLast.id \notin Persisted
  /\ (rLast.op = "resolve" /\ GitFailsInCachedPath) =>
       /\ rLast.result # rLast.hadPath /\ ~rLast.raised
       /\ EntryPath(rCacheFile, rLast.id) # rLast.hadPath
  /\ (rLast.op = "resolve" /\ rLast.result # NullPath) =>
       rLast.result \in DOMAIN rFs.remotes

\* The cached path of a resolve is a directory named like the repository,
\* with a .git directory, in which git fails; the entry was dropped, the
\* scan passed over that directory and found the checkout elsewhere.
C20_Witness ==
  /\ rLast.op = "resolve" /\ GitFailsInCachedPath
  /\ rLast.hadPath = PathDDR
  /\ Join(PathDDR, DotGit) \in rFs.dirs
  /\ rLast.scanned /\ rLast.result = PathWR

\* GIT_SEARCH_MAX_DEPTH as configured, the default when it is unset.
ConfiguredDepth(config) ==
  IF config.hasDepth THEN config.depth ELSE DefaultMaxDepth

\* C25: on a cache miss resolve scans with the configured maximum depth,
\* for every configured non-negative integer, 0 included, and with the
\* default depth 4 only when the setting is unset: what resolve returns
\* after scanning is a result of the scan of the configured roots with the
\* configured depth.
C25_ConfiguredDepthHonoured ==
  (rLast.op = "resolve" /\ rLast.scanned /\ ~rLast.raised) =>
    rLast.result \in scanForRepo(rFs, rLast.id, SearchPathsOf(rConfig),
                                 ConfiguredDepth(rConfig))

\* C26: when neither the cache nor the scan yields a match for a valid
\* identifier, resolve returns not-found without raising, and afterwards
\* the persisted cache holds no entry for the identifier (nothing is stored
\* for the failure, a stale entry has been evicted) while the entries of
\* the other identifiers are as they were.
C26_CleanNotFound ==
  [][(/\ IsCall /\ rLast'.op = "resolve" /\ ~Falsy(rLast'.id)
      /\ ~EntryValid(rFs, rCacheFile, rLast'.id)
      /\ scanForRepo(rFs, rLast'.id, SearchPathsOf(rConfig),
                     MaxDepthOf(rConfig)) = {NullPath}) =>
       /\ rLast'.result = NullPath /\ ~rLast'.raised
       /\ EntryIds(rCacheFile') = EntryIds(rCacheFile) \ {rLast'.id}
       /\ \A k \in EntryIds(rCacheFile') :
            rCacheFile'.entries[k] = rCacheFile.entries[k]]_vars

\* A resolve has found nothing; the cache held a stale entry for the
\* identifier, which is gone, and still holds the entry of another one.
C26_Witness ==
  /\ rLast.op = "resolve" /\ rLast.scanned /\ rLast.result = NullPath
  /\ rLast.had
  /\ rLast.id \notin Persisted
  /\ Persisted # {}

\* The cached entry of id does not hold up: its path is gone or none of
\* its remotes normalizes to id.
Stale(fs, q, id) == ~OnDisk(fs, q) \/ ~RemoteOf(fs, q, id)

\* The walk from some configured search root gets to c: c lies below the
\* root, within the depth scanned, no name on the way is in the Skip-Set
\* and every directory above c can be read.
ReachableIn(fs, config, c) ==
  \E i \in 1..Len(SearchPathsOf(config)) :
    LET base == ExpandHome(SearchPathsOf(config)[i]) IN
    /\ IsPrefix(base, c) /\ Len(c) > Len(base)
    /\ \A k \in (Len(base) + 1)..Len(c) : c[k] \notin SKIP_DIRS
    /\ \A k \in Len(base)..(Len(c) - 1) : SubSeq(c, 1, k) \notin fs.unreadable
    /\ Len(c) - Len(base) - 1 <= MaxDepthOf(config)

\* C30: when the cached path of id has become stale (deleted, or its
\* remote changed) and a valid checkout of id lies below the search roots
\* within maxDepth, the next resolve evicts the stale entry, scans, returns
\* a valid checkout and leaves the persisted cache mapping id to the path
\* returned.
C30_SelfHealing ==
  (/\ rLast.op = "resolve" /\ rLast.had
   /\ Stale(rFs, rLast.hadPath, rLast.id)
   /\ \E c \in DOMAIN rFs.remotes :
        Conforms(rFs, c, rLast.id) /\ ReachableIn(rFs, rConfig, c)) =>
    /\ ~rLast.raised /\ rLast.scanned
    /\ rLast.result # rLast.hadPath
    /\ Conforms(rFs, rLast.result, rLast.id)
    /\ EntryPath(rCacheFile, rLast.id) = rLast.result

\* The cached checkout has been removed, and the resolve that followed
\* returned the checkout below the other search root and cached it.
C30_Witness ==
  /\ rLast.op = "resolve" /\ rPrev.op = "env"
  /\ rLast.had /\ rLast.hadPath = PathDDR /\ ~OnDisk(rFs, PathDDR)
  /\ rLast.result = PathWR
  /\ EntryPath(rCacheFile, rLast.id) = PathWR

\* The persisted mapping without the timestamps: identifier to path.
PathsOf(file) == [k \in EntryIds(file) |-> loadCache(file).entries[k].path]

\* The abstract map after a call: insert or overwrite for a store, delete
\* for a lookup that found the entry of its identifier stale.
Applied(m, call, fs) ==
  IF call.op = "store"
    THEN [k \in DOMAIN m \cup {call.id} |->
            IF k = call.id THEN call.path ELSE m[k]]
  ELSE IF call.id \in DOMAIN m /\ Stale(fs, m[call.id], call.id)
    THEN [k \in DOMAIN m \ {call.id} |-> m[k]]
  ELSE m

\* C31: when cache operations never overlap, the persisted mapping
\* (timestamps ignored) follows the abstract map step by step: after each
\* store or lookup it is the abstract map of the mapping the call found,
\* with the entry inserted or overwritten by a store and deleted by a
\* lookup that found it stale, so every call sees the writes of the calls
\* before it.
C31_SerializedRefinement ==
  [][(IsCall /\ rLast'.op \in {"store", "lookup"}) =>
       /\ ~rLast'.raised
       /\ PathsOf(rCacheFile') = Applied(PathsOf(rCacheFile), rLast', rFs)]_vars

ResolveDone(p) == cStage[p] = "returned"

\* C32: under every interleaving of the loads, validations and saves of
\* concurrent calls of resolveRepo, the filesystem unchanged meanwhile,
\* each call returns null or a path that exists with a remote normalizing
\* to its own identifier; and whatever entries lost or overwritten writes
\* leave in the file, a stale one is evicted by the next lookup of its
\* identifier.
C32_InterleavingSound ==
  /\ \A p \in Procs :
       ResolveDone(p) =>
         \/ cResult[p] = NullPath
         \/ /\ OnDisk(cFs, cResult[p])
            /\ RemoteOf(cFs, cResult[p], cOp[p].id)
  /\ \A id \in EntryIds(cFile) :
       Stale(cFs, EntryPath(cFile, id), id) =>
         LET next == cacheLookup(cFs, cFile, id, NumProcs + 1) IN
         /\ next.result = NullPath
         /\ id \notin EntryIds(next.file)

\* Every call has returned; one of them found the entry of its identifier
\* stale, evicted it and returned null, and the entry is in the file again,
\* written by another call that had loaded the file before the eviction.
C32_Witness ==
  /\ \A p \in Procs : ResolveDone(p)
  /\ \E p \in Procs :
       /\ cResult[p] = NullPath /\ cWriter # p
       /\ HasEntry(cLoaded[p], cOp[p].id)
       /\ cOp[p].id \in EntryIds(cFile)
       /\ Stale(cFs, EntryPath(cFile, cOp[p].id), cOp[p].id)

(***************************************************************************)
(* Properties of the daemon                                                *)
(***************************************************************************)

\* C36: while a daemon started by `serve` is alive and listening, the PID
\* file names a live serve process, and a `status` asked meanwhile reports
\* it as running; a second `serve` refused for the port in use changes
\* neither.
C36_StatusTruthful ==
  /\ dListener # 0 => (dPidFile # 0 /\ Alive(dPc, dPidFile))
  /\ (dStatus.asked /\ dStatus.listening) => dStatus.result

(***************************************************************************)
(* Properties of the HTTP server                                           *)
(***************************************************************************)

\* C37: spawnTerminal is called only for a GET /dd/claude-fix request with
\* a data parameter whose prompt fetch succeeded, and only after the single
\* 200 response of that request was written; a request answered with 204,
\* 400, 404 or 500 never has a spawn, and no request gets a second
\* response, also when the spawn fails.
C37_RespondThenSpawn ==
  \A r \in Requests :
    /\ Len(hSent[r]) <= 1
    /\ hSpawned[r] > 0 =>
         /\ hReq[r] = [method |-> "GET", pathname |-> "/dd/claude-fix",
                       data |-> "value"]
         /\ hFetch[r] = "resolved"
         /\ hSent[r] = <<200>>
    /\ (hSent[r] # <<>> /\ hSent[r][1] \in {204, 400, 404, 500}) =>
         hSpawned[r] = 0
    /\ hPc[r] = "failed" => hSent[r] = <<200>>

\* The spawn for a request failed after its 200 response, while another
\* request was answered with a 500.
C37_Witness ==
  \E r, q \in Requests :
    /\ hPc[r] = "failed" /\ hSpawned[r] = 1 /\ hSent[r] = <<200>>
    /\ hSent[q] = <<500>>

(***************************************************************************)
(* Properties under faults                                                 *)
(***************************************************************************)

\* C17: whatever the cache file holds that is no mapping (it is missing,
\* unreadable, or does not parse as one), load yields the empty mapping,
\* lookup(id) returns not-found without raising, and store(id, path)
\* completes and leaves a well-formed mapping containing id.  Stated for
\* a cache file that can be written and an identifier that is no
\* inherited name.
C17_CorruptionNeverFatal ==
  [][(/\ IsCall /\ rCacheFile.kind # "json" /\ rCacheFile.writable
      /\ rLast'.id \notin InheritedKeys) =>
       /\ loadCache(rCacheFile) = [type |-> "object", entries |-> NoEntries]
       /\ rLast'.op = "lookup" =>
            (~rLast'.raised /\ rLast'.result = NullPath)
       /\ rLast'.op = "store" =>
            /\ ~rLast'.raised
            /\ rCacheFile'.kind = "json"
            /\ rLast'.id \in EntryIds(rCacheFile')]_vars

\* C18: whatever the state of the filesystem, the cache file and the
\* configuration, resolve(raw) returns a path or not-found and raises no
\* error to its caller.
C18_ResolveNeverRaises ==
  rLast.op = "resolve" => ~rLast.raised

(***************************************************************************)
(* Properties of overlapping calls                                         *)
(***************************************************************************)

\* What the call of process p leaves when it runs alone on the file f.
Alone(p, f) ==
  IF cOp[p].op = "store"
    THEN cacheStore(f, cOp[p].id, cOp[p].path, Tick(p))
    ELSE cacheLookup(cFs, f, cOp[p].id, Tick(p))

\* C14: the last writer wins: the file holds what the call that wrote last
\* would have left had it run alone on the file as it read it, whatever
\* other calls wrote between its load and its save.
C14_LastWriterWins ==
  \A p \in Procs : cWriter = p => cFile = Alone(p, cSeen[p]).file

\* A lookup of X found its entry stale and persisted the eviction; a store
\* of another identifier had loaded the mapping before that and saved
\* after it; X is in the persisted cache again.
C14_Witness ==
  \E p, q \in Procs :
    /\ p # q /\ cPc[p] = "done" /\ cPc[q] = "done"
    /\ cOp[q].op = "lookup" /\ cOp[q].id \in EntryIds(cSeen[q])
    /\ Alone(q, cSeen[q]).result = NullPath
    /\ cOp[p].op = "store" /\ cOp[p].id # cOp[q].id
    /\ cOp[q].id \in EntryIds(cSeen[p])
    /\ cWriter = p
    /\ cOp[q].id \in EntryIds(cFile)

====
